---------------------------- MODULE Spec2Model ----------------------------
(***************************************************************************)
(* A model of pylon's bus-branch case (pylon/case.py): the Bus, Branch and *)
(* Case objects, the indexing passes, the admittance builders getYbus,     *)
(* makeB and makeBdc, the derivatives dSbus_dV and d2Sbus_dV2, and the     *)
(* solution update pf_solution / reset; and of make_susceptance_matrix of  *)
(* pylon/routine/y.py.                                                     *)
(*                                                                         *)
(* Numbers.  The program computes in IEEE floating point.  The model       *)
(* computes in exact complex rational arithmetic: a number is a record     *)
(* [re, im, den] standing for (re + j*im)/den in lowest terms, den > 0.    *)
(* Every non-finite float (inf, NaN) is the single value NaN, den = 0,     *)
(* which every arithmetic operation used here propagates, as the floats do *)
(* (the builders never divide BY a non-finite value).  Rounding is not     *)
(* modelled.  Phase angles are restricted to multiples of 90 degrees and   *)
(* voltages to axis-aligned phasors, for which exp, angle and abs are      *)
(* rational.                                                               *)
(***************************************************************************)
EXTENDS Integers, Sequences, FiniteSets, TLC

VARIABLES
    bus,         \* the Bus objects, by identity: [BusId -> Bus record]
    base_mva,    \* Case.base_mva
    buses,       \* Case.buses: a list of Bus identities
    branches,    \* Case.branches: a list of Branch records
    generators,  \* Case.generators: a list of Generator records
    ret,         \* what the last matrix builder call returned
    last         \* the operation that ran last, and how it ended

vars == <<bus, base_mva, buses, branches, generators, ret, last>>

-----------------------------------------------------------------------------
(* Bounds of the model.                                                    *)

MaxBus == 2
MaxBranch == 2
MaxGen == 2

-----------------------------------------------------------------------------
(* Constants of pylon/case.py.                                             *)

PV == "PV"
PQ == "PQ"
REFERENCE == "ref"
ISOLATED == "isolated"

-----------------------------------------------------------------------------
(* Complex arithmetic.                                                     *)

Abs(n) == IF n < 0 THEN -n ELSE n

RECURSIVE GCD(_, _)
GCD(a, b) == IF b = 0 THEN a ELSE GCD(b, a % b)

NaN == [re |-> 0, im |-> 0, den |-> 0]

\* (a + j*b)/d in lowest terms; a zero denominator is a non-finite float.
Cx(a, b, d) ==
    IF d = 0 THEN NaN
    ELSE LET g == GCD(GCD(Abs(a), Abs(b)), Abs(d))
             s == IF d < 0 THEN -1 ELSE 1
         IN  [re |-> s * (a \div g), im |-> s * (b \div g), den |-> Abs(d) \div g]

R(n) == Cx(n, 0, 1)
Zero == R(0)
IsFinite(z) == z.den # 0

CAdd(z, w) ==
    IF ~IsFinite(z) \/ ~IsFinite(w) THEN NaN
    ELSE Cx(z.re * w.den + w.re * z.den, z.im * w.den + w.im * z.den, z.den * w.den)

CNeg(z) == IF ~IsFinite(z) THEN NaN ELSE Cx(-z.re, -z.im, z.den)

CSub(z, w) == CAdd(z, CNeg(w))

CMul(z, w) ==
    IF ~IsFinite(z) \/ ~IsFinite(w) THEN NaN
    ELSE Cx(z.re * w.re - z.im * w.im, z.re * w.im + z.im * w.re, z.den * w.den)

conj(z) == IF ~IsFinite(z) THEN NaN ELSE Cx(z.re, -z.im, z.den)

\* numpy array division: x/0 is inf or NaN (a warning, no exception).
CDiv(z, w) ==
    IF ~IsFinite(z) \/ ~IsFinite(w) THEN NaN
    ELSE Cx((z.re * w.re + z.im * w.im) * w.den,
            (z.im * w.re - z.re * w.im) * w.den,
            z.den * (w.re * w.re + w.im * w.im))

real(z) == IF ~IsFinite(z) THEN NaN ELSE Cx(z.re, 0, z.den)
imag(z) == IF ~IsFinite(z) THEN NaN ELSE Cx(z.im, 0, z.den)

\* exp(1j * deg * pi / 180) for deg a multiple of 90.
ExpJ(deg) ==
    CASE deg % 360 = 0   -> Cx(1, 0, 1)
      [] deg % 360 = 90  -> Cx(0, 1, 1)
      [] deg % 360 = 180 -> Cx(-1, 0, 1)
      [] deg % 360 = 270 -> Cx(0, -1, 1)

\* angle(z) * 180 / pi for an axis-aligned z (angle(0) = 0).
AngleDeg(z) ==
    CASE z.im = 0 /\ z.re >= 0 -> R(0)
      [] z.re = 0 /\ z.im > 0  -> R(90)
      [] z.im = 0 /\ z.re < 0  -> R(180)
      [] z.re = 0 /\ z.im < 0  -> R(-90)

\* abs(z) for an axis-aligned z.
CAbs(z) == Cx(Abs(z.re) + Abs(z.im), 0, z.den)

\* The list <<F(1), ..., F(n)>>, built entry by entry.
Tabulate(n, F(_)) ==
    LET T[k \in 0..n] == IF k = 0 THEN <<>> ELSE Append(T[k - 1], F(k))
    IN  T[n]

RECURSIVE SumSeq(_)
SumSeq(s) == IF s = <<>> THEN Zero ELSE CAdd(Head(s), SumSeq(Tail(s)))

-----------------------------------------------------------------------------
(* The objects.                                                            *)

BusId == 1..MaxBus

\* Bus.__init__: the attributes the modelled operations read or write.
Bus(type, g_shunt, b_shunt, p_demand, q_demand) ==
    [type |-> type, v_magnitude |-> R(1), v_angle |-> R(0),
     p_demand |-> p_demand, q_demand |-> q_demand,
     g_shunt |-> g_shunt, b_shunt |-> b_shunt,
     p_lmbda |-> R(0), q_lmbda |-> R(0), mu_vmin |-> R(0), mu_vmax |-> R(0),
     _i |-> 0]

\* Bus.reset
BusReset(v) ==
    [v EXCEPT !.p_lmbda = R(0), !.q_lmbda = R(0),
              !.mu_vmin = R(0), !.mu_vmax = R(0)]

\* Branch.__init__
Branch(from_bus, to_bus, online, r, x, b, ratio, phase_shift) ==
    [from_bus |-> from_bus, to_bus |-> to_bus, online |-> online,
     r |-> r, x |-> x, b |-> b, ratio |-> ratio, phase_shift |-> phase_shift,
     p_from |-> R(0), p_to |-> R(0), q_from |-> R(0), q_to |-> R(0),
     mu_s_from |-> R(0), mu_s_to |-> R(0),
     mu_angmin |-> R(0), mu_angmax |-> R(0),
     _i |-> 0]

\* Branch.reset clearing the from end only.
BranchReset_FromEndOnly(e) ==
    [e EXCEPT !.p_from = R(0), !.q_from = R(0),
              !.mu_s_from = R(0), !.mu_s_to = R(0),
              !.mu_angmin = R(0), !.mu_angmax = R(0)]

\* Branch.reset
BranchReset(e) ==
    [e EXCEPT !.p_from = R(0), !.p_to = R(0), !.q_from = R(0), !.q_to = R(0),
              !.mu_s_from = R(0), !.mu_s_to = R(0),
              !.mu_angmin = R(0), !.mu_angmax = R(0)]

\* A generator as case.py uses one: its bus, its online flag, its dispatch.
Generator(gbus, online, p, q) ==
    [bus |-> gbus, online |-> online, p |-> p, q |-> q]

\* Generator.reset: clears the generator's multipliers, which no modelled
\* operation reads; the dispatch p, q is left alone.
GeneratorReset(g) == g

-----------------------------------------------------------------------------
(* Case properties.  A list of objects is a sequence; a selection of a     *)
(* list is the sequence of the selected positions' entries.                *)

\* Case.connected_buses, over a bus list bl and the objects bs.
ConnectedOf(bl, bs) == SelectSeq(bl, LAMBDA v : bs[v].type # ISOLATED)

connected_buses == ConnectedOf(buses, bus)

\* Case.online_branches, as positions of the branch list brs.
OnlinePos(brs) ==
    LET F[k \in 0..Len(brs)] ==
            IF k = 0 THEN <<>>
            ELSE IF brs[k].online THEN Append(F[k - 1], k) ELSE F[k - 1]
    IN  F[Len(brs)]

online_branches == SelectSeq(branches, LAMBDA e : e.online)

online_generators == SelectSeq(generators, LAMBDA g : g.online)

-----------------------------------------------------------------------------
(* Case.index_buses and Case.index_branches, default arguments.            *)

\* The 0-based rank of position k among the positions of s that pass Test,
\* i.e. the i of "for i, b in enumerate(selection)".
Rank(s, k, Test(_)) == Cardinality({m \in 1..(k - 1) : Test(s[m])})

\* Rank of bus identity v in the list bl among its connected buses; a bus
\* listed more than once keeps the index of its last occurrence.
LastPos(bl, v) == CHOOSE k \in 1..Len(bl) : bl[k] = v /\ \A m \in (k + 1)..Len(bl) : bl[m] # v

\* index_buses numbering the connected buses by their place among all the
\* listed buses.
index_buses_ByPlace(bl, bs) ==
    Tabulate(Len(bs), LAMBDA v : IF bs[v].type # ISOLATED /\ \E k \in 1..Len(bl) : bl[k] = v
        THEN [bs[v] EXCEPT !._i = LastPos(bl, v) - 1]
        ELSE bs[v])

index_buses(bl, bs) ==
    Tabulate(Len(bs), LAMBDA v : IF bs[v].type # ISOLATED /\ \E k \in 1..Len(bl) : bl[k] = v
        THEN [bs[v] EXCEPT !._i =
                 Rank(bl, LastPos(bl, v), LAMBDA w : bs[w].type # ISOLATED)]
        ELSE bs[v])

index_branches(brs) ==
    Tabulate(Len(brs), LAMBDA k : IF brs[k].online
        THEN [brs[k] EXCEPT !._i = Rank(brs, k, LAMBDA e : e.online)]
        ELSE brs[k])

-----------------------------------------------------------------------------
(* Sparse matrices.  A matrix is a sequence of rows, each a sequence of    *)
(* entries, rows and columns counted from 1 (index i of the code is        *)
(* position i + 1).  An entry the sparse matrix does not store is Zero.    *)

NRows(M) == Len(M.rows)
NCols(M) == M.ncols

Matrix(nr, nc, Entry(_, _)) ==
    [ncols |-> nc,
     rows |-> Tabulate(nr, LAMBDA i : Tabulate(nc, LAMBDA j : Entry(i, j)))]

\* M * V for a dense vector V of length NCols(M).
MatVec(M, V) ==
    Tabulate(NRows(M),
             LAMBDA i : SumSeq(Tabulate(NCols(M), LAMBDA j : CMul(M.rows[i][j], V[j]))))

-----------------------------------------------------------------------------
(* Case.getYbus(buses, branches): bs is the list of bus objects and brs    *)
(* the list of branch objects the build uses; hp holds the bus objects the *)
(* branches refer to (from_bus, to_bus), read for their index _i.          *)

\* Ys = online / (r + 1j * x)
SeriesAdmittance(e) == CDiv(R(IF e.online THEN 1 ELSE 0), Cx(e.r, e.x, 1))

\* Bc = online * b
LineCharging(e) == CMul(R(IF e.online THEN 1 ELSE 0), R(e.b))

\* The tap taken from the ratio as it stands, 0 for a line.
Tap_RawRatio(e) == CMul(R(e.ratio), ExpJ(e.phase_shift))

\* tap = (ratio if ratio != 0 else 1) * exp(1j * phase_shift * pi / 180)
Tap(e) == CMul(R(IF e.ratio # 0 THEN e.ratio ELSE 1), ExpJ(e.phase_shift))

BranchYtt(e) == CAdd(SeriesAdmittance(e), CDiv(CMul(Cx(0, 1, 1), LineCharging(e)), R(2)))
\* Yff without the division by the squared tap.
BranchYff_Untapped(e) == BranchYtt(e)

BranchYff(e) == CDiv(BranchYtt(e), CMul(Tap(e), conj(Tap(e))))
BranchYft(e) == CDiv(CNeg(SeriesAdmittance(e)), conj(Tap(e)))

\* Ytf without its sign.
BranchYtf_Unsigned(e) == CDiv(SeriesAdmittance(e), Tap(e))

BranchYtf(e) == CDiv(CNeg(SeriesAdmittance(e)), Tap(e))

\* Ysh = (g_shunt + 1j * b_shunt) / base_mva
ShuntAdmittance(v, mva) == CDiv(Cx(v.g_shunt, v.b_shunt, 1), R(mva))

\* csc_matrix((r_[a, b], (r_[il, il], r_[f, t])), (nl, nb)): entry (l, c) is
\* a[l] if c is the from column, plus b[l] if c is the to column.
Scatter(brs, hp, nb, A(_), Bt(_)) ==
    Matrix(Len(brs), nb,
           LAMBDA l, c :
               CAdd(IF hp[brs[l].from_bus]._i + 1 = c THEN A(brs[l]) ELSE Zero,
                    IF hp[brs[l].to_bus]._i + 1 = c THEN Bt(brs[l]) ELSE Zero))

\* The sparse constructors raise when a column index is outside 0..nb-1.
IndexInRange(brs, hp, nb) ==
    \A l \in 1..Len(brs) :
        /\ hp[brs[l].from_bus]._i < nb
        /\ hp[brs[l].to_bus]._i < nb

\* Ybus = Cf.T * Yf + Ct.T * Yt + Ysh_diag
AssembleYbus(bs, brs, hp, mva, Yf, Yt) ==
    Matrix(Len(bs), Len(bs),
           LAMBDA i, j :
               CAdd(CAdd(SumSeq(Tabulate(Len(brs), LAMBDA l : IF hp[brs[l].from_bus]._i + 1 = i
                                    THEN Yf.rows[l][j] ELSE Zero)),
                         SumSeq(Tabulate(Len(brs), LAMBDA l : IF hp[brs[l].to_bus]._i + 1 = i
                                    THEN Yt.rows[l][j] ELSE Zero))),
                    IF i = j THEN ShuntAdmittance(bs[i], mva) ELSE Zero))

\* return Ybus, Yf, Yt
YbusResult(bs, brs, hp, mva, Yf, Yt) ==
    [ok |-> TRUE, op |-> "getYbus",
     Ybus |-> AssembleYbus(bs, brs, hp, mva, Yf, Yt), Yf |-> Yf, Yt |-> Yt]

getYbus(bs, brs, hp, mva) ==
    IF ~IndexInRange(brs, hp, Len(bs)) THEN [ok |-> FALSE, op |-> "getYbus"]
    ELSE YbusResult(bs, brs, hp, mva,
                    Scatter(brs, hp, Len(bs), BranchYff, BranchYft),
                    Scatter(brs, hp, Len(bs), BranchYtf, BranchYtt))

\* The Y property: getYbus() with buses = self.buses, branches = self.branches.
YProperty(bl, bs, brs, mva) == getYbus(Tabulate(Len(bl), LAMBDA k : bs[bl[k]]), brs, bs, mva)

-----------------------------------------------------------------------------
(* Case.makeB(buses, branches, method): the fast decoupled B' and B''.     *)

\* -M.imag
NegImag(M) == Matrix(NRows(M), NCols(M), LAMBDA i, j : CNeg(imag(M.rows[i][j])))

\* The copies of the buses, with b_shunt zeroed.
B_buses(bs) == Tabulate(Len(bs), LAMBDA k : [bs[k] EXCEPT !.b_shunt = 0])

\* The copies for B' with the tap ratio left as it is.
Bp_branches_KeepRatio(brs, method) ==
    Tabulate(Len(brs), LAMBDA k : [brs[k] EXCEPT !.b = 0,
                       !.r = IF method = "XB" THEN 0 ELSE @])

\* The copies of the branches that B' is built from.
Bp_branches(brs, method) ==
    Tabulate(Len(brs), LAMBDA k : [brs[k] EXCEPT !.b = 0, !.ratio = 1,
                       !.r = IF method = "XB" THEN 0 ELSE @])

\* The copies for B'' with the phase shift left as it is.
Bpp_branches_KeepShift(brs, method) ==
    Tabulate(Len(brs), LAMBDA k : [brs[k] EXCEPT
                       !.r = IF method = "BX" THEN 0 ELSE @])

\* The copies of the branches that B'' is built from.
Bpp_branches(brs, method) ==
    Tabulate(Len(brs), LAMBDA k : [brs[k] EXCEPT !.phase_shift = 0,
                       !.r = IF method = "BX" THEN 0 ELSE @])

\* return -Yp.imag, -Ypp.imag
BResult(Yp, Ypp, method) ==
    IF ~Yp.ok \/ ~Ypp.ok THEN [ok |-> FALSE, op |-> "makeB"]
    ELSE [ok |-> TRUE, op |-> "makeB", method |-> method,
          Bp |-> NegImag(Yp.Ybus), Bpp |-> NegImag(Ypp.Ybus)]

makeB(bs, brs, hp, mva, method) ==
    BResult(getYbus(B_buses(bs), Bp_branches(brs, method), hp, mva),
            getYbus(B_buses(bs), Bpp_branches(brs, method), hp, mva),
            method)

-----------------------------------------------------------------------------
(* Case.makeBdc(buses, branches): the DC power flow matrices.  Angles are  *)
(* carried in degrees: Pfinj and Pbusinj are in units of pi/180.           *)

\* The susceptance divided by the ratio as it stands, 0 for a line.
SeriesSusceptance_RawRatio(e) ==
    CDiv(CDiv(R(IF e.online THEN 1 ELSE 0), R(e.x)), R(e.ratio))

\* b = (online / x) / (ratio if ratio != 0 else 1)
SeriesSusceptance(e) ==
    CDiv(CDiv(R(IF e.online THEN 1 ELSE 0), R(e.x)),
         R(IF e.ratio # 0 THEN e.ratio ELSE 1))

\* Pfinj = b * shift
BranchPfinj(e) == CMul(SeriesSusceptance(e), R(e.phase_shift))

\* Cft.T * X for the signed incidence matrix Cft (+1 at the from column,
\* -1 at the to column, summed where they coincide) and the column X(l) of
\* a matrix or vector with one row per branch.
CftT(brs, hp, i, X(_)) ==
    SumSeq(Tabulate(Len(brs), LAMBDA l : IF hp[brs[l].from_bus]._i + 1 = i \/ hp[brs[l].to_bus]._i + 1 = i
               THEN CMul(CAdd(IF hp[brs[l].from_bus]._i + 1 = i THEN R(1) ELSE Zero,
                              IF hp[brs[l].to_bus]._i + 1 = i THEN R(-1) ELSE Zero),
                         X(l))
               ELSE Zero))

\* return Bbus, Bf, Pbusinj, Pfinj
BdcResult(bs, brs, hp, Bf) ==
    [ok |-> TRUE, op |-> "makeBdc",
     Bbus |-> Matrix(Len(bs), Len(bs),
                     LAMBDA i, j : CftT(brs, hp, i, LAMBDA l : Bf.rows[l][j])),
     Bf |-> Bf,
     Pbusinj |-> Tabulate(Len(bs),
                          LAMBDA i : CftT(brs, hp, i, LAMBDA l : BranchPfinj(brs[l]))),
     Pfinj |-> Tabulate(Len(brs), LAMBDA l : BranchPfinj(brs[l]))]

\* makeBdc with the to end entries of Bf left unsigned.
makeBdc_UnsignedTo(bs, brs, hp) ==
    IF ~IndexInRange(brs, hp, Len(bs)) THEN [ok |-> FALSE, op |-> "makeBdc"]
    ELSE BdcResult(bs, brs, hp,
                   Scatter(brs, hp, Len(bs), SeriesSusceptance, SeriesSusceptance))

makeBdc(bs, brs, hp) ==
    IF ~IndexInRange(brs, hp, Len(bs)) THEN [ok |-> FALSE, op |-> "makeBdc"]
    ELSE BdcResult(bs, brs, hp,
                   Scatter(brs, hp, Len(bs), SeriesSusceptance,
                           LAMBDA e : CNeg(SeriesSusceptance(e))))

-----------------------------------------------------------------------------
(* Case.reset and Case.pf_solution.  A case state cs is the record         *)
(* [bus, branches, generators] of the objects; bl is Case.buses.           *)

InList(bl, v) == \E k \in 1..Len(bl) : bl[k] = v

\* Case.reset passing over the out-of-service branches.
reset_OnlineOnly(bl, cs) ==
    [bus        |-> Tabulate(Len(cs.bus), LAMBDA v : IF InList(bl, v) THEN BusReset(cs.bus[v]) ELSE cs.bus[v]),
     branches   |-> Tabulate(Len(cs.branches), LAMBDA k :
                        IF cs.branches[k].online THEN BranchReset(cs.branches[k])
                        ELSE cs.branches[k]),
     generators |-> Tabulate(Len(cs.generators), LAMBDA k : GeneratorReset(cs.generators[k]))]

\* Case.reset
reset(bl, cs) ==
    [bus        |-> Tabulate(Len(cs.bus), LAMBDA v : IF InList(bl, v) THEN BusReset(cs.bus[v]) ELSE cs.bus[v]),
     branches   |-> Tabulate(Len(cs.branches), LAMBDA k : BranchReset(cs.branches[k])),
     generators |-> Tabulate(Len(cs.generators), LAMBDA k : GeneratorReset(cs.generators[k]))]

Min(a, b) == IF a < b THEN a ELSE b

\* for i, b in enumerate(buses): b.v_angle = Va[i] * 180 / pi; b.v_magnitude = Vm[i]
\* conn is the connected bus list taken on entry; the loop raises IndexError
\* at the first i >= len(V), the buses before it being written.
WriteVoltages(conn, bs, V) ==
    Tabulate(Len(bs), LAMBDA v : IF \E k \in 1..Min(Len(conn), Len(V)) : conn[k] = v
        THEN LET k == CHOOSE k \in 1..Min(Len(conn), Len(V)) : conn[k] = v
             IN  [bs[v] EXCEPT !.v_angle = AngleDeg(V[k]), !.v_magnitude = CAbs(V[k])]
        ELSE bs[v])

\* Sg = V * conj(Ybus * V)
BusCurrents(I, V) == Tabulate(Len(V), LAMBDA i : CMul(V[i], conj(I[i])))

InjectedPower(Ybus, V) == BusCurrents(MatVec(Ybus, V), V)

\* The rank among the online generators of the first one whose loop body
\* raises IndexError, or their number if none does.
FirstBad(gens, Bad(_, _)) ==
    LET bad == {Rank(gens, k, LAMBDA g : g.online) :
                   k \in {m \in 1..Len(gens) :
                             gens[m].online /\ Bad(m, Rank(gens, m, LAMBDA g : g.online))}}
    IN  IF bad = {} THEN Cardinality({k \in 1..Len(gens) : gens[k].online})
        ELSE CHOOSE i \in bad : \A m \in bad : i <= m

\* for g in generators: g.q = Sg.imag[g.bus._i] * base_mva + g.bus.q_demand
QBad(gens, bs, Sg) == FirstBad(gens, LAMBDA k, i : bs[gens[k].bus]._i >= Len(Sg))

\* The reactive dispatch without the bus demand.
UpdateQUpTo_NoDemand(gens, bs, Sg, mva, stop) ==
    Tabulate(Len(gens), LAMBDA k :
        IF gens[k].online /\ Rank(gens, k, LAMBDA g : g.online) < stop
        THEN [gens[k] EXCEPT !.q = CMul(imag(Sg[bs[gens[k].bus]._i + 1]), R(mva))]
        ELSE gens[k])

UpdateQUpTo(gens, bs, Sg, mva, stop) ==
    Tabulate(Len(gens), LAMBDA k :
        IF gens[k].online /\ Rank(gens, k, LAMBDA g : g.online) < stop
        THEN [gens[k] EXCEPT !.q =
                 CAdd(CMul(imag(Sg[bs[gens[k].bus]._i + 1]), R(mva)),
                      R(bs[gens[k].bus].q_demand))]
        ELSE gens[k])

UpdateQ(gens, bs, Sg, mva) == UpdateQUpTo(gens, bs, Sg, mva, QBad(gens, bs, Sg))

\* for i in refgen: g = generators[i]; g.p = Sg.real[i] * base_mva + g.bus.p_demand
PBad(gens, bs, Sg) ==
    FirstBad(gens, LAMBDA k, i : bs[gens[k].bus].type = REFERENCE /\ i >= Len(Sg))

\* The active dispatch added to what the generator held (g.p += ...).
RefGenPower_Added(g, i, bs, Sg, mva) ==
    CAdd(g.p, CAdd(CMul(real(Sg[i + 1]), R(mva)), R(bs[g.bus].p_demand)))

RefGenPower(g, i, bs, Sg, mva) ==
    CAdd(CMul(real(Sg[i + 1]), R(mva)), R(bs[g.bus].p_demand))

UpdatePUpTo(gens, bs, Sg, mva, stop) ==
    Tabulate(Len(gens), LAMBDA k :
        IF gens[k].online /\ bs[gens[k].bus].type = REFERENCE
           /\ Rank(gens, k, LAMBDA g : g.online) < stop
        THEN [gens[k] EXCEPT !.p =
                 RefGenPower(gens[k], Rank(gens, k, LAMBDA g : g.online), bs, Sg, mva)]
        ELSE gens[k])

UpdateP(gens, bs, Sg, mva) == UpdatePUpTo(gens, bs, Sg, mva, PBad(gens, bs, Sg))

\* Sf = V[f_idx] * conj(Yf[br, :] * V) * base_mva raises unless every index
\* is in range and the shapes agree.
FlowsBad(brs, bs, Yb, V) ==
    \/ \E k \in 1..Len(brs) :
           /\ brs[k].online
           /\ \/ bs[brs[k].from_bus]._i >= Len(V)
              \/ bs[brs[k].to_bus]._i >= Len(V)
              \/ brs[k]._i >= NRows(Yb)
    \/ NCols(Yb) # Len(V)

\* V[end] * conj(Ibr[l._i]) * base_mva, Ibr = Yb * V
EndPower(e, end, Ibr, V, mva) == CMul(CMul(V[end + 1], conj(Ibr[e._i + 1])), R(mva))

WriteFlows(e, Sf, St) ==
    [e EXCEPT !.p_from = real(Sf), !.q_from = imag(Sf),
              !.p_to = real(St), !.q_to = imag(St)]

FlowsFrom(brs, bs, If, It, V, mva) ==
    Tabulate(Len(brs), LAMBDA k :
        IF brs[k].online
        THEN WriteFlows(brs[k],
                        EndPower(brs[k], bs[brs[k].from_bus]._i, If, V, mva),
                        EndPower(brs[k], bs[brs[k].to_bus]._i, It, V, mva))
        ELSE brs[k])

UpdateFlows(brs, bs, Yf, Yt, V, mva) ==
    FlowsFrom(brs, bs, MatVec(Yf, V), MatVec(Yt, V), V, mva)

PfOut(bs, brs, gens, err) ==
    [bus |-> bs, branches |-> brs, generators |-> gens, err |-> err]

\* The generator and branch updates, from the injected powers Sg on.
PfDispatch(bs, brs, gens, mva, Sg, Yf, Yt, V, gq, gp) ==
    IF QBad(gens, bs, Sg) < Cardinality({k \in 1..Len(gens) : gens[k].online})
        THEN PfOut(bs, brs, gq, TRUE)
    ELSE IF PBad(gens, bs, Sg) < Cardinality({k \in 1..Len(gens) : gens[k].online})
        THEN PfOut(bs, brs, gp, TRUE)
    ELSE IF FlowsBad(brs, bs, Yf, V) \/ FlowsBad(brs, bs, Yt, V)
        THEN PfOut(bs, brs, gp, TRUE)
    ELSE PfOut(bs, UpdateFlows(brs, bs, Yf, Yt, V, mva), gp, FALSE)

PfGenerators(bs, brs, gens, mva, Sg, Yf, Yt, V, gq) ==
    PfDispatch(bs, brs, gens, mva, Sg, Yf, Yt, V, gq, UpdateP(gq, bs, Sg, mva))

\* The updates after reset and the indexing passes: bs are the buses with
\* the voltages written, nconn the number of connected buses.
PfUpdate(nconn, bs, brs, gens, mva, Ybus, Yf, Yt, V, Sg) ==
    IF nconn > Len(V) \/ NCols(Ybus) # Len(V) THEN PfOut(bs, brs, gens, TRUE)
    ELSE PfGenerators(bs, brs, gens, mva, Sg, Yf, Yt, V, UpdateQ(gens, bs, Sg, mva))

PfIndexed(conn, c1, bl, mva, Ybus, Yf, Yt, V) ==
    PfUpdate(Len(conn), WriteVoltages(conn, index_buses(bl, c1.bus), V),
             index_branches(c1.branches), c1.generators, mva, Ybus, Yf, Yt, V,
             InjectedPower(Ybus, V))

\* Case.pf_solution(Ybus, Yf, Yt, V): the case state it leaves, and whether
\* it ended in an exception (the writes made before it stay).
pf_solution(bl, cs0, mva, Ybus, Yf, Yt, V) ==
    PfIndexed(ConnectedOf(bl, cs0.bus), reset(bl, cs0), bl, mva, Ybus, Yf, Yt, V)

-----------------------------------------------------------------------------
(* The case under study, and the operations on it.                         *)

\* Case.__init__: base_mva = 100.0
DefaultBaseMVA == 100

cs == [bus |-> bus, branches |-> branches, generators |-> generators]

BusObjects(bl, bs) == Tabulate(Len(bl), LAMBDA k : bs[bl[k]])

\* The voltage vectors a solver hands to pf_solution: axis-aligned phasors,
\* flat or alternating between 1 and j from bus to bus.
Voltages(n) ==
    {Tabulate(n, LAMBDA i : Cx(1, 0, 1)),
     Tabulate(n, LAMBDA i : IF i % 2 = 1 THEN Cx(1, 0, 1) ELSE Cx(0, 1, 1))}

IndexBuses ==
    /\ bus' = index_buses(buses, bus)
    /\ last' = [op |-> "index_buses", err |-> FALSE]
    /\ UNCHANGED <<base_mva, buses, branches, generators, ret>>

IndexBranches ==
    /\ branches' = index_branches(branches)
    /\ last' = [op |-> "index_branches", err |-> FALSE]
    /\ UNCHANGED <<bus, base_mva, buses, generators, ret>>

HasFlows(e) ==
    e.p_from # R(0) \/ e.q_from # R(0) \/ e.p_to # R(0) \/ e.q_to # R(0)

HasMultipliers ==
    /\ \E k \in 1..Len(buses) : bus[buses[k]] # BusReset(bus[buses[k]])
    /\ \E k \in 1..Len(branches) :
           branches[k].mu_s_from # R(0) \/ branches[k].mu_angmax # R(0)

\* The case holds results of an earlier solve that the next one will not
\* write again: shadow prices, and flows on a branch now out of service.
Stale ==
    /\ HasMultipliers
    /\ \E k \in 1..Len(branches) : ~branches[k].online /\ HasFlows(branches[k])

\* Ybus, Yf, Yt = case.Y; case.pf_solution(Ybus, Yf, Yt, V): the update a
\* power flow solver makes with its solved voltage vector V.
PfWrite(o, y, V) ==
    /\ bus' = o.bus
    /\ branches' = o.branches
    /\ generators' = o.generators
    /\ last' = [op |-> "pf_solution", err |-> o.err, V |-> V,
                Ybus |-> y.Ybus, Yf |-> y.Yf, Yt |-> y.Yt, stale |-> Stale]
    /\ UNCHANGED <<base_mva, buses, ret>>

PfWith(y) ==
    /\ y.ok
    /\ \E V \in Voltages(NCols(y.Ybus)) :
           PfWrite(pf_solution(buses, cs, base_mva, y.Ybus, y.Yf, y.Yt, V), y, V)

PfSolution == PfWith(YProperty(buses, bus, branches, base_mva))

\* case.reset()
ResetWrite(o) ==
    /\ bus' = o.bus
    /\ branches' = o.branches
    /\ generators' = o.generators
    /\ last' = [op |-> "reset", err |-> FALSE, after |-> last.op]
    /\ UNCHANGED <<base_mva, buses, ret>>

Reset == ResetWrite(reset(buses, cs))

\* branch.online = not branch.online; at most one branch is out of service
\* at a time.
SwitchBranch(k) ==
    /\ \A m \in 1..Len(branches) : m # k => branches[m].online
    /\ branches' = [branches EXCEPT ![k].online = ~@]
    /\ last' = [op |-> "edit", err |-> FALSE]
    /\ UNCHANGED <<bus, base_mva, buses, generators, ret>>

\* An optimal power flow solver stores its shadow prices on the case it
\* has just updated with its solution.
WriteMultipliers ==
    /\ last.op = "pf_solution" /\ ~last.err
    /\ bus' = Tabulate(Len(bus), LAMBDA v :
                  IF InList(buses, v)
                  THEN [bus[v] EXCEPT !.p_lmbda = R(1), !.q_lmbda = R(1),
                                      !.mu_vmin = R(1), !.mu_vmax = R(1)]
                  ELSE bus[v])
    /\ branches' = Tabulate(Len(branches), LAMBDA k :
                       [branches[k] EXCEPT !.mu_s_from = R(1), !.mu_s_to = R(1),
                                           !.mu_angmin = R(1), !.mu_angmax = R(1)])
    /\ last' = [op |-> "opf", err |-> FALSE]
    /\ UNCHANGED <<base_mva, buses, generators, ret>>

\* The cases of the state machine: one reference bus, the bus after it
\* isolated or not; branch k joins bus k and the next bus round the ring, each branch
\* with its own reactance, at most one of them out of service; the
\* generators all on one bus, or one after the other round the buses.
Next1(v) == (v % MaxBus) + 1

CaseBusTypes ==
    {[v \in BusId |-> IF v = ref THEN REFERENCE ELSE PQ] : ref \in BusId}
        \cup {[v \in BusId |-> IF v = ref THEN REFERENCE
                               ELSE IF v = Next1(ref) THEN ISOLATED ELSE PQ] :
                 ref \in BusId}

CaseOnline ==
    {on \in [1..MaxBranch -> BOOLEAN] :
        Cardinality({k \in 1..MaxBranch : ~on[k]}) <= 1}

CaseGenBuses ==
    {[k \in 1..MaxGen |-> v] : v \in BusId}
        \cup {[k \in 1..MaxGen |-> ((k + s) % MaxBus) + 1] : s \in 1..MaxBus}

Init ==
    /\ base_mva = DefaultBaseMVA
    /\ buses = Tabulate(MaxBus, LAMBDA k : k)
    /\ \E t \in CaseBusTypes :
           bus = Tabulate(MaxBus, LAMBDA v : Bus(t[v], 0, 0, v, v + 1))
    /\ \E on \in CaseOnline :
           branches = Tabulate(MaxBranch, LAMBDA k :
                          Branch(k, Next1(k), on[k], 1, k + 1, 0, 0, 0))
    /\ \E gb \in CaseGenBuses :
           generators = Tabulate(MaxGen, LAMBDA k : Generator(gb[k], TRUE, R(0), R(0)))
    /\ ret = [ok |-> FALSE, op |-> "none"]
    /\ last = [op |-> "init", err |-> FALSE]

Next ==
    \/ IndexBuses
    \/ IndexBranches
    \/ PfSolution
    \/ Reset
    \/ \E k \in 1..Len(branches) : SwitchBranch(k)
    \/ WriteMultipliers

Spec == Init /\ [][Next]_vars

-----------------------------------------------------------------------------
(* The matrix builders on their own, applied to a case that has been built *)
(* and indexed by index_buses() and index_branches(); the cases carry every *)
(* combination of the electrical parameters of one branch.                 *)

\* Ybus, Yf, Yt = case.Y
GetY ==
    /\ ret' = YProperty(buses, bus, branches, base_mva)
    /\ last' = [op |-> "getYbus", err |-> ~ret'.ok]
    /\ UNCHANGED <<bus, base_mva, buses, branches, generators>>

\* makeB writing its overrides to the case's own objects, as it would
\* without copy.deepcopy.
MakeBWrites_InPlace(bs, brs, method) ==
    [bus      |-> Tabulate(Len(bs), LAMBDA v :
                      IF bs[v].type # ISOLATED THEN [bs[v] EXCEPT !.b_shunt = 0] ELSE bs[v]),
     branches |-> Tabulate(Len(brs), LAMBDA k :
                      IF brs[k].online
                      THEN [brs[k] EXCEPT !.b = 0, !.ratio = 1, !.phase_shift = 0,
                                          !.r = 0]
                      ELSE brs[k])]

\* The bus and branch objects of the case after makeB: B_buses, Bp_branches
\* and Bpp_branches are copy.deepcopy of the lists, the overrides are
\* written to the copies and the objects of the case are left as they are.
MakeBWrites(bs, brs, method) == [bus |-> bs, branches |-> brs]

\* case.makeB(method=method)
MakeB(method) ==
    /\ ret' = makeB(BusObjects(connected_buses, bus), online_branches, bus,
                    base_mva, method)
    /\ last' = [op |-> "makeB", err |-> ~ret'.ok]
    /\ bus' = MakeBWrites(bus, branches, method).bus
    /\ branches' = MakeBWrites(bus, branches, method).branches
    /\ UNCHANGED <<base_mva, buses, generators>>

\* case.makeBdc()
MakeBdc ==
    /\ ret' = makeBdc(BusObjects(connected_buses, bus), online_branches, bus)
    /\ last' = [op |-> "makeBdc", err |-> ~ret'.ok]
    /\ UNCHANGED <<bus, base_mva, buses, branches, generators>>

\* The buses of a builder case: plain (a reference bus, then PV and PQ
\* buses, no shunts), shunted, or plain with the first or the last listed
\* bus isolated.
BuilderBus(kind, nb, v) ==
    Bus(IF (kind = "first isolated" /\ v = 1) \/ (kind = "last isolated" /\ v = nb)
            THEN ISOLATED
        ELSE IF v = 1 THEN REFERENCE
        ELSE IF v % 2 = 0 THEN PV ELSE PQ,
        IF kind = "shunted" THEN v ELSE 0,
        IF kind = "shunted" THEN 1 ELSE 0,
        0, 0)

BusKinds == {"plain", "shunted", "first isolated", "last isolated"}

\* The branch under study: either way between the first two buses or a
\* loop on the first, in or out of service, every combination of r, x, b,
\* ratio and phase_shift.
StudyBranches ==
    {Branch(ends[1], ends[2], on, r, x, b, ratio, shift) :
        ends \in {<<1, 2>>, <<2, 1>>, <<1, 1>>}, on \in BOOLEAN,
        r \in {0, 1}, x \in {0, 2}, b \in {0, 2}, ratio \in {0, 2}, shift \in {0, 90}}

\* The branches after it: in-service lines round the ring of listed buses,
\* every second one with the nominal tap ratio 1 written out.
RingBranch(k, nb) ==
    Branch(((k - 1) % nb) + 1, (k % nb) + 1, TRUE, 1, k, 0, IF k % 2 = 0 THEN 1 ELSE 0, 0)

InitB ==
    /\ base_mva = DefaultBaseMVA
    /\ \E nb \in 2..MaxBus :
           /\ buses = Tabulate(nb, LAMBDA k : k)
           /\ \E kind \in BusKinds :
                  bus = index_buses(buses,
                            Tabulate(MaxBus, LAMBDA v : BuilderBus(kind, nb, v)))
           /\ \E nl \in 1..MaxBranch :
                  \E e \in StudyBranches :
                      branches = index_branches(
                                     Tabulate(nl, LAMBDA k :
                                         IF k = 1 THEN e ELSE RingBranch(k, nb)))
    /\ generators = <<>>
    /\ ret = [ok |-> FALSE, op |-> "none"]
    /\ last = [op |-> "init", err |-> FALSE]

NextB ==
    \/ GetY
    \/ MakeB("XB")
    \/ MakeB("BX")
    \/ MakeBdc

SpecB == InitB /\ [][NextB]_vars

-----------------------------------------------------------------------------
(* Editing the bus list between indexing passes: the caller takes a bus    *)
(* out of Case.buses and calls index_buses() again.                        *)

\* The list bl without its k-th entry (list.remove / del bl[k]).
RemoveAt(bl, k) == SubSeq(bl, 1, k - 1) \o SubSeq(bl, k + 1, Len(bl))

\* The index _i of every bus object.
Indices(bs) == Tabulate(Len(bs), LAMBDA v : bs[v]._i)

\* case.buses.remove(b) for the k-th listed bus; the bus objects stay as
\* they are.
RemoveBus(k) ==
    /\ k \in 1..Len(buses)
    /\ Len(buses) > 1
    /\ buses' = RemoveAt(buses, k)
    /\ last' = [op |-> "remove", err |-> FALSE,
                isolated |-> bus[buses[k]].type = ISOLATED,
                indexed |-> last.op = "index_buses"]
    /\ UNCHANGED <<bus, base_mva, branches, generators, ret>>

\* case.index_buses(), with a note of the indices before the call and of
\* whether it follows the removal of an isolated bus from an indexed case.
IndexBusesAgain ==
    /\ bus' = index_buses(buses, bus)
    /\ last' = [op |-> "index_buses", err |-> FALSE,
                before |-> Indices(bus),
                removed_isolated |-> last.op = "remove" /\ last.isolated /\ last.indexed]
    /\ UNCHANGED <<base_mva, buses, branches, generators, ret>>

BusTypes == {PV, PQ, REFERENCE, ISOLATED}

\* The number of buses of a case whose bus list is edited: one more than in
\* the other cases, so that a bus is left on either side of the removed one.
EditedBuses == MaxBus + 1

\* Cases of buses of every type, listed in order or in reverse; no bus is
\* indexed yet.
InitI ==
    /\ base_mva = DefaultBaseMVA
    /\ buses \in {Tabulate(EditedBuses, LAMBDA k : k),
                  Tabulate(EditedBuses, LAMBDA k : EditedBuses + 1 - k)}
    /\ \E types \in [1..EditedBuses -> BusTypes] :
           bus = Tabulate(EditedBuses, LAMBDA v : Bus(types[v], 0, 0, 0, 0))
    /\ branches = <<>>
    /\ generators = <<>>
    /\ ret = [ok |-> FALSE, op |-> "none"]
    /\ last = [op |-> "init", err |-> FALSE]

NextI ==
    \/ IndexBusesAgain
    \/ \E k \in 1..EditedBuses : RemoveBus(k)

SpecI == InitI /\ [][NextI]_vars

-----------------------------------------------------------------------------
(* pf_solution handed a voltage vector or a branch matrix of the wrong     *)
(* size, as after the case changed between the build and the solve.        *)

\* The matrix M with one more column, nothing stored in it.
Widened(M) ==
    [ncols |-> NCols(M) + 1,
     rows |-> Tabulate(NRows(M), LAMBDA i : Append(M.rows[i], Zero))]

\* The solved voltages, generator dispatch and branch flows of the case.
Results ==
    [v_magnitude |-> Tabulate(Len(bus), LAMBDA v : bus[v].v_magnitude),
     v_angle     |-> Tabulate(Len(bus), LAMBDA v : bus[v].v_angle),
     dispatch    |-> Tabulate(Len(generators),
                              LAMBDA k : <<generators[k].p, generators[k].q>>)]

\* case.pf_solution(Ybus, Yf, Yt, V) with its outcome o, and a note of the
\* results the case held before the call.
PfWriteMismatched(o, kind) ==
    /\ bus' = o.bus
    /\ branches' = o.branches
    /\ generators' = o.generators
    /\ last' = [op |-> "pf_solution", err |-> o.err, mismatch |-> kind,
                before |-> Results]
    /\ UNCHANGED <<base_mva, buses, ret>>

\* V one entry longer or shorter than Ybus has columns, or Yf and Yt one
\* column wider than V is long.
PfMismatchedWith(y, kind) ==
    /\ y.ok
    /\ kind = "short V" => NCols(y.Ybus) > 1
    /\ \E V \in Voltages(IF kind = "long V" THEN NCols(y.Ybus) + 1
                         ELSE IF kind = "short V" THEN NCols(y.Ybus) - 1
                         ELSE NCols(y.Ybus)) :
           PfWriteMismatched(
               pf_solution(buses, cs, base_mva, y.Ybus,
                           IF kind = "wide Yf" THEN Widened(y.Yf) ELSE y.Yf,
                           IF kind = "wide Yf" THEN Widened(y.Yt) ELSE y.Yt, V),
               kind)

PfMismatched(kind) == PfMismatchedWith(YProperty(buses, bus, branches, base_mva), kind)

NextV ==
    \/ IndexBuses
    \/ IndexBranches
    \/ PfMismatched("long V")
    \/ PfMismatched("short V")
    \/ PfMismatched("wide Yf")

SpecV == Init /\ [][NextV]_vars

-----------------------------------------------------------------------------
(* Case.d2Sbus_dV2(Ybus, V, lam): the second derivatives of the power      *)
(* injection.  Matrices hold finite entries here, so that the sparse       *)
(* products are the dense ones.                                            *)

\* csr_matrix((v, (ib, ib)))
Diag(v) ==
    [ncols |-> Len(v),
     rows |-> Tabulate(Len(v), LAMBDA i :
                  Tabulate(Len(v), LAMBDA j : IF i = j THEN v[i] ELSE Zero))]

\* M.T
Transpose(M) ==
    [ncols |-> NRows(M),
     rows |-> Tabulate(NCols(M), LAMBDA i :
                  Tabulate(NRows(M), LAMBDA j : M.rows[j][i]))]

\* conj(M)
MatConj(M) ==
    [ncols |-> NCols(M),
     rows |-> Tabulate(NRows(M), LAMBDA i :
                  Tabulate(NCols(M), LAMBDA j : conj(M.rows[i][j])))]

\* z * M
MatScale(z, M) ==
    [ncols |-> NCols(M),
     rows |-> Tabulate(NRows(M), LAMBDA i :
                  Tabulate(NCols(M), LAMBDA j : CMul(z, M.rows[i][j])))]

\* M + N and M - N
MatAdd(M, N) ==
    [ncols |-> NCols(M),
     rows |-> Tabulate(NRows(M), LAMBDA i :
                  Tabulate(NCols(M), LAMBDA j : CAdd(M.rows[i][j], N.rows[i][j])))]

MatSub(M, N) == MatAdd(M, MatScale(R(-1), N))

\* M * N
MatMul(M, N) ==
    [ncols |-> NCols(N),
     rows |-> Tabulate(NRows(M), LAMBDA i :
                  Tabulate(NCols(N), LAMBDA j :
                      SumSeq(Tabulate(NCols(M),
                                      LAMBDA k : CMul(M.rows[i][k], N.rows[k][j])))))]

\* Gav taken as Gva itself.
BlockGav_Untransposed(Gva) == Gva

\* Gav = Gva.T
BlockGav(Gva) == Transpose(Gva)

\* Gaa = E + F; Gav = Gva.T; Gvv = G * (C + C.T) * G
D2Result(C, E, F, G, Gva) ==
    [ok |-> TRUE, op |-> "d2Sbus_dV2",
     Gaa |-> MatAdd(E, F), Gav |-> BlockGav(Gva), Gva |-> Gva,
     Gvv |-> MatMul(MatMul(G, MatAdd(C, Transpose(C))), G)]

\* Gva = 1j * G * (E - F)
D2Blocks(C, E, F, G) ==
    D2Result(C, E, F, G, MatScale(Cx(0, 1, 1), MatMul(G, MatSub(E, F))))

\* E = diagV.conj() * (D * diaglam - diag(D * lam))
\* F = C - A * diag(conj(Ibus))
D2Terms(A, C, D, diagV, lam, Ibus, G) ==
    D2Blocks(C,
             MatMul(MatConj(diagV), MatSub(MatMul(D, Diag(lam)), Diag(MatVec(D, lam)))),
             MatSub(C, MatMul(A, MatConj(Diag(Ibus)))),
             G)

\* C = A * conj(B) with B = Ybus * diagV; D = Ybus.H * diagV
D2Products(Ybus, V, lam, A, diagV) ==
    D2Terms(A, MatMul(A, MatConj(MatMul(Ybus, diagV))),
            MatMul(Transpose(MatConj(Ybus)), diagV), diagV, lam, MatVec(Ybus, V),
            Diag(Tabulate(Len(V), LAMBDA i : CDiv(R(1), CAbs(V[i])))))

\* A = diag(lam * V); diagV = diag(V)
d2Sbus_dV2(Ybus, V, lam) ==
    D2Products(Ybus, V, lam, Diag(Tabulate(Len(V), LAMBDA i : CMul(lam[i], V[i]))), Diag(V))

\* The voltage vectors the derivatives are taken at: flat, alternating
\* between 1 and j, and alternating between 2 and -j; no entry is zero.
DerivativeVoltages(n) ==
    Voltages(n) \cup {Tabulate(n, LAMBDA i : IF i % 2 = 1 THEN Cx(2, 0, 1) ELSE Cx(0, -1, 1))}

\* The multiplier vectors: all ones, a ramp, and one bus only.
Multipliers(n) ==
    {Tabulate(n, LAMBDA i : R(1)),
     Tabulate(n, LAMBDA i : R(i)),
     Tabulate(n, LAMBDA i : IF i = 1 THEN R(1) ELSE Zero)}

D2SbusWith(y) ==
    /\ y.ok
    /\ \E V \in DerivativeVoltages(NCols(y.Ybus)) :
           \E lam \in Multipliers(NCols(y.Ybus)) :
               /\ ret' = d2Sbus_dV2(y.Ybus, V, lam)
               /\ last' = [op |-> "d2Sbus_dV2", err |-> FALSE, V |-> V, lam |-> lam]
    /\ UNCHANGED <<bus, base_mva, buses, branches, generators>>

\* Ybus, Yf, Yt = case.Y; case.d2Sbus_dV2(Ybus, V, lam)
D2Sbus == D2SbusWith(YProperty(buses, bus, branches, base_mva))

\* dS_dVa without the conjugate.
DSdVa_NoConj(Y, diagV, diagIbus) ==
    MatScale(Cx(0, 1, 1), MatMul(diagV, MatSub(diagIbus, MatMul(Y, diagV))))

\* dS_dVa = 1j * diagV * conj(diagIbus - Y * diagV)
DSdVa(Y, diagV, diagIbus) ==
    MatScale(Cx(0, 1, 1), MatMul(diagV, MatConj(MatSub(diagIbus, MatMul(Y, diagV)))))

\* dS_dVm = diagV * conj(Y * diagVnorm) + conj(diagIbus) * diagVnorm
DSdVm(Y, diagV, diagIbus, diagVnorm) ==
    MatAdd(MatMul(diagV, MatConj(MatMul(Y, diagVnorm))),
           MatMul(MatConj(diagIbus), diagVnorm))

\* return dS_dVm, dS_dVa
DSResult(Y, diagV, diagIbus, diagVnorm) ==
    [ok |-> TRUE, op |-> "dSbus_dV",
     dS_dVm |-> DSdVm(Y, diagV, diagIbus, diagVnorm),
     dS_dVa |-> DSdVa(Y, diagV, diagIbus)]

\* Case.dSbus_dV(Y, V): I = Y * V; diagV, diagIbus and diagVnorm = V / abs(V)
\* on the diagonal.
dSbus_dV(Y, V) ==
    DSResult(Y, Diag(V), Diag(MatVec(Y, V)),
             Diag(Tabulate(Len(V), LAMBDA i : CDiv(V[i], CAbs(V[i])))))

DSbusWith(y) ==
    /\ y.ok
    /\ \E V \in DerivativeVoltages(NCols(y.Ybus)) :
           /\ ret' = dSbus_dV(y.Ybus, V)
           /\ last' = [op |-> "dSbus_dV", err |-> FALSE, V |-> V, Y |-> y.Ybus]
    /\ UNCHANGED <<bus, base_mva, buses, branches, generators>>

\* Ybus, Yf, Yt = case.Y; case.dSbus_dV(Ybus, V)
DSbus == DSbusWith(YProperty(buses, bus, branches, base_mva))

\* The branch the derivatives are studied with: a line, a line with
\* charging, a transformer, a phase shifter with charging.
DerivativeBranches ==
    {Branch(1, 2, TRUE, 1, 2, 0, 0, 0), Branch(1, 2, TRUE, 0, 2, 2, 0, 0),
     Branch(2, 1, TRUE, 1, 2, 0, 2, 0), Branch(1, 2, TRUE, 1, 2, 2, 2, 90)}

\* Indexed cases of connected buses, plain or shunted, with the branch
\* under study and in-service lines round the ring after it.
InitD ==
    /\ base_mva = DefaultBaseMVA
    /\ \E nb \in 2..MaxBus :
           /\ buses = Tabulate(nb, LAMBDA k : k)
           /\ \E kind \in {"plain", "shunted"} :
                  bus = index_buses(buses,
                            Tabulate(MaxBus, LAMBDA v : BuilderBus(kind, nb, v)))
           /\ \E nl \in 1..MaxBranch :
                  \E e \in DerivativeBranches :
                      branches = index_branches(
                                     Tabulate(nl, LAMBDA k :
                                         IF k = 1 THEN e ELSE RingBranch(k, nb)))
    /\ generators = <<>>
    /\ ret = [ok |-> FALSE, op |-> "none"]
    /\ last = [op |-> "init", err |-> FALSE]

NextD ==
    \/ D2Sbus
    \/ DSbus

SpecD == InitD /\ [][NextD]_vars

-----------------------------------------------------------------------------
(* Two cases worked on at once.  In this specification every variable      *)
(* holds a pair, one entry per Case instance: bus[c] are the Bus objects   *)
(* of case c, buses[c] its bus list, and so on; ret[c] are the matrices    *)
(* the caller working on case c holds, last.pc[c] the number of steps that *)
(* caller has taken.  The two callers' steps interleave in any order.      *)

\* What the caller working on a case runs; pf_solution is taken one loop or
\* call at a time, the other operations whole.
Program ==
    <<"index_buses", "index_branches", "getYbus", "makeB", "makeBdc",
      "pf_solution: reset", "pf_solution: index_buses", "pf_solution: index_branches",
      "pf_solution: voltages", "pf_solution: q", "pf_solution: p", "pf_solution: flows",
      "reset">>

\* The caller's view of case c: the case, the matrices returned so far and
\* the voltage vector it hands to pf_solution.
Thread(c) ==
    [bus |-> bus[c], base_mva |-> base_mva[c], buses |-> buses[c],
     branches |-> branches[c], generators |-> generators[c], ret |-> ret[c],
     V |-> last.V[c]]

ThreadObjects(t) == [bus |-> t.bus, branches |-> t.branches, generators |-> t.generators]

\* The step named op, taken on the caller's view t.
Step(t, op) ==
    CASE op \in {"index_buses", "pf_solution: index_buses"} ->
             [t EXCEPT !.bus = index_buses(t.buses, t.bus)]
      [] op \in {"index_branches", "pf_solution: index_branches"} ->
             [t EXCEPT !.branches = index_branches(t.branches)]
      [] op = "getYbus" ->
             [t EXCEPT !.ret.Y = YProperty(t.buses, t.bus, t.branches, t.base_mva)]
      [] op = "makeB" ->
             [t EXCEPT !.ret.B = makeB(BusObjects(ConnectedOf(t.buses, t.bus), t.bus),
                                       SelectSeq(t.branches, LAMBDA e : e.online),
                                       t.bus, t.base_mva, "XB")]
      [] op = "makeBdc" ->
             [t EXCEPT !.ret.Bdc = makeBdc(BusObjects(ConnectedOf(t.buses, t.bus), t.bus),
                                           SelectSeq(t.branches, LAMBDA e : e.online),
                                           t.bus)]
      [] op \in {"reset", "pf_solution: reset"} ->
             [t EXCEPT !.bus = reset(t.buses, ThreadObjects(t)).bus,
                       !.branches = reset(t.buses, ThreadObjects(t)).branches,
                       !.generators = reset(t.buses, ThreadObjects(t)).generators]
      [] op = "pf_solution: voltages" ->
             [t EXCEPT !.bus = WriteVoltages(ConnectedOf(t.buses, t.bus), t.bus, t.V)]
      [] op = "pf_solution: q" ->
             [t EXCEPT !.generators =
                 UpdateQ(t.generators, t.bus, InjectedPower(t.ret.Y.Ybus, t.V), t.base_mva)]
      [] op = "pf_solution: p" ->
             [t EXCEPT !.generators =
                 UpdateP(t.generators, t.bus, InjectedPower(t.ret.Y.Ybus, t.V), t.base_mva)]
      [] op = "pf_solution: flows" ->
             [t EXCEPT !.branches =
                 UpdateFlows(t.branches, t.bus, t.ret.Y.Yf, t.ret.Y.Yt, t.V, t.base_mva)]

\* Every Case instance sharing one set of lists and objects, as with a
\* mutable default argument.
Put_Shared(pair, c, x) == <<x, x>>

\* Case.__init__: each instance holds its own lists, and a step on case c
\* writes to the objects of case c.
Put(pair, c, x) == [pair EXCEPT ![c] = x]

AdvanceTo(c, t) ==
    /\ bus' = Put(bus, c, t.bus)
    /\ branches' = Put(branches, c, t.branches)
    /\ generators' = Put(generators, c, t.generators)
    /\ ret' = Put(ret, c, t.ret)
    /\ last' = [last EXCEPT !.op = Program[last.pc[c] + 1], !.pc[c] = @ + 1]
    /\ UNCHANGED <<base_mva, buses>>

\* The caller working on case c takes its next step.
Advance(c) ==
    /\ last.pc[c] < Len(Program)
    /\ AdvanceTo(c, Step(Thread(c), Program[last.pc[c] + 1]))

\* Case c of the pair: MaxBus connected buses with the reference bus at
\* place ref, a ring of in-service lines and MaxGen generators round the
\* buses; the reactances, the demands and the generator buses differ from
\* case to case.
PairCase(c, ref) ==
    [bus |-> Tabulate(MaxBus, LAMBDA v :
                 Bus(IF v = ref THEN REFERENCE ELSE PQ, 0, 0, v + c, v + 1)),
     base_mva |-> DefaultBaseMVA,
     buses |-> Tabulate(MaxBus, LAMBDA k : k),
     branches |-> Tabulate(MaxBranch, LAMBDA k :
                      Branch(k, Next1(k), TRUE, 1, k + c, 0, 0, 0)),
     generators |-> Tabulate(MaxGen, LAMBDA k :
                        Generator(((k + c) % MaxBus) + 1, TRUE, R(0), R(0))),
     ret |-> [Y |-> [ok |-> FALSE, op |-> "none"], B |-> [ok |-> FALSE, op |-> "none"],
              Bdc |-> [ok |-> FALSE, op |-> "none"]],
     V |-> Tabulate(MaxBus, LAMBDA i : IF (i + c) % 2 = 0 THEN Cx(1, 0, 1) ELSE Cx(0, 1, 1))]

InitPair(t1, t2) ==
    /\ bus = <<t1.bus, t2.bus>>
    /\ base_mva = <<t1.base_mva, t2.base_mva>>
    /\ buses = <<t1.buses, t2.buses>>
    /\ branches = <<t1.branches, t2.branches>>
    /\ generators = <<t1.generators, t2.generators>>
    /\ ret = <<t1.ret, t2.ret>>
    /\ last = [op |-> "init", err |-> FALSE, pc |-> <<0, 0>>,
               V |-> <<t1.V, t2.V>>, start |-> <<t1, t2>>]

InitC == \E r1, r2 \in BusId : InitPair(PairCase(1, r1), PairCase(2, r2))

NextC ==
    \/ Advance(1)
    \/ Advance(2)

SpecC == InitC /\ [][NextC]_vars

-----------------------------------------------------------------------------
(* Editing an indexed case and building from it: the caller changes bus    *)
(* types, inserts and removes buses and switches branches, and calls the   *)
(* builders with default arguments, with or without an indexing pass in    *)
(* between.                                                                *)

\* bus.type = ISOLATED, or bus.type = PQ for an isolated bus.
SetBusType(v) ==
    /\ bus' = [bus EXCEPT ![v].type = IF @ = ISOLATED THEN PQ ELSE ISOLATED]
    /\ last' = [op |-> "edit", err |-> FALSE]
    /\ UNCHANGED <<base_mva, buses, branches, generators, ret>>

\* case.buses.insert(0, b) for a bus object b that is not listed.
InsertBus(v) ==
    /\ ~InList(buses, v)
    /\ buses' = <<v>> \o buses
    /\ last' = [op |-> "edit", err |-> FALSE]
    /\ UNCHANGED <<bus, base_mva, branches, generators, ret>>

\* The caller has not built anything yet: the edits and the indexing passes
\* come first, the builds after them.
Editing == ret.op = "none"

\* The indexed cases that are edited: no bus shunts, MaxBranch branches.
InitE == InitD /\ Len(branches) = MaxBranch /\ bus[1].g_shunt = 0

NextE ==
    \/ Editing /\ IndexBuses
    \/ Editing /\ IndexBranches
    \/ \E v \in BusId : Editing /\ SetBusType(v)
    \/ \E v \in BusId : Editing /\ InsertBus(v)
    \/ \E k \in 1..MaxBus : Editing /\ RemoveBus(k)
    \/ \E k \in 1..Len(branches) : Editing /\ SwitchBranch(k)
    \/ Editing /\ GetY
    \/ Editing /\ MakeB("XB")
    \/ Editing /\ MakeBdc

SpecE == InitE /\ [][NextE]_vars

-----------------------------------------------------------------------------
(* pf_solution called a second time with the arguments of the call before. *)

\* The second call with its outcome o, and a note of the case and of the
\* outcome the first call left.
PfWriteAgain(o) ==
    /\ bus' = o.bus
    /\ branches' = o.branches
    /\ generators' = o.generators
    /\ last' = [op |-> "pf_solution again", err |-> o.err,
                first |-> [case |-> cs, err |-> last.err, stale |-> last.stale]]
    /\ UNCHANGED <<base_mva, buses, ret>>

\* case.pf_solution(Ybus, Yf, Yt, V) right after case.pf_solution(Ybus, Yf, Yt, V)
PfAgain ==
    /\ last.op = "pf_solution"
    /\ PfWriteAgain(pf_solution(buses, cs, base_mva, last.Ybus, last.Yf, last.Yt, last.V))

\* The cases of the state machine whose first generator is on the first bus.
InitR == Init /\ generators[1].bus = buses[1]

NextR ==
    \/ Next
    \/ PfAgain

SpecR == InitR /\ [][NextR]_vars

-----------------------------------------------------------------------------
(* make_susceptance_matrix(network) of pylon/routine/y.py.  The routine    *)
(* reads network.non_islanded_buses and network.in_service_branches, and   *)
(* the source_bus and target_bus of a branch: here the connected buses and *)
(* the in-service branches of the case, and from_bus and to_bus.  A        *)
(* susceptance of the routine is a record [big, fin] standing for          *)
(* big * 1e12 + fin, so that the value substituted for 1/0 is exact.       *)

Sus(big, fin) == [big |-> big, fin |-> fin]

\* b_branch with the division by the tap ratio left out.
b_branch_Untapped(e) ==
    IF e.x # 0 THEN Sus(Zero, CDiv(R(1), R(e.x))) ELSE Sus(R(1), Zero)

\* if e.x != 0.0: b_branch = 1/e.x  else: b_branch = 1e12
\* if e.ratio != 0.0: b_branch /= e.ratio
b_branch(e) ==
    IF e.ratio # 0
    THEN Sus(CDiv(b_branch_Untapped(e).big, R(e.ratio)),
             CDiv(b_branch_Untapped(e).fin, R(e.ratio)))
    ELSE b_branch_Untapped(e)

\* buses.index(v), counted from 1.
ListIndex(bl, v) == CHOOSE k \in 1..Len(bl) : bl[k] = v /\ \A m \in 1..(k - 1) : bl[m] # v

\* What the loop adds to b[i, j] for the branch e with the susceptance s:
\* -s at (src, dst) and (dst, src), +s at (src, src) and (dst, dst).
Stamp(s, src, dst, i, j) ==
    CAdd(CAdd(IF i = src /\ j = dst THEN CNeg(s) ELSE Zero,
              IF i = dst /\ j = src THEN CNeg(s) ELSE Zero),
         CAdd(IF i = src /\ j = src THEN s ELSE Zero,
              IF i = dst /\ j = dst THEN s ELSE Zero))

\* b_source[e_idx, src_idx] = b_branch; b_source[e_idx, dst_idx] = -b_branch
SourceEntry(s, src, dst, c) ==
    IF c = dst THEN CNeg(s) ELSE IF c = src THEN s ELSE Zero

\* return b, b_source; buses.index raises ValueError for a bus that is not
\* in the list.
make_susceptance_matrix(bl, brs) ==
    IF \E k \in 1..Len(brs) : ~InList(bl, brs[k].from_bus) \/ ~InList(bl, brs[k].to_bus)
    THEN [ok |-> FALSE, op |-> "make_susceptance_matrix"]
    ELSE [ok |-> TRUE, op |-> "make_susceptance_matrix",
          b |-> Matrix(Len(bl), Len(bl), LAMBDA i, j :
                    Sus(SumSeq(Tabulate(Len(brs), LAMBDA k :
                            Stamp(b_branch(brs[k]).big, ListIndex(bl, brs[k].from_bus),
                                  ListIndex(bl, brs[k].to_bus), i, j))),
                        SumSeq(Tabulate(Len(brs), LAMBDA k :
                            Stamp(b_branch(brs[k]).fin, ListIndex(bl, brs[k].from_bus),
                                  ListIndex(bl, brs[k].to_bus), i, j))))),
          b_source |-> Matrix(Len(brs), Len(bl), LAMBDA l, c :
                    Sus(SourceEntry(b_branch(brs[l]).big, ListIndex(bl, brs[l].from_bus),
                                    ListIndex(bl, brs[l].to_bus), c),
                        SourceEntry(b_branch(brs[l]).fin, ListIndex(bl, brs[l].from_bus),
                                    ListIndex(bl, brs[l].to_bus), c)))]

\* make_susceptance_matrix(network)
MakeSusceptance ==
    /\ ret' = make_susceptance_matrix(connected_buses, online_branches)
    /\ last' = [op |-> "make_susceptance_matrix", err |-> ~ret'.ok]
    /\ UNCHANGED <<bus, base_mva, buses, branches, generators>>

NextS == MakeSusceptance

SpecS == InitB /\ [][NextS]_vars

-----------------------------------------------------------------------------
(* Properties of the matrix builders.                                      *)

BuiltY == ret.op = "getYbus" /\ ret.ok

ZeroShunts ==
    \A k \in 1..Len(buses) : bus[buses[k]].g_shunt = 0 /\ bus[buses[k]].b_shunt = 0

\* Two listed buses with the indices 0 and 1, no shunts, and one in-service
\* branch from the first to the second with b = 0, ratio = 0,
\* phase_shift = 0 and r, x not both zero.
SingleLineCase ==
    /\ Len(buses) = 2 /\ ZeroShunts
    /\ bus[buses[1]]._i = 0 /\ bus[buses[2]]._i = 1
    /\ Len(branches) = 1
    /\ branches[1].online
    /\ branches[1].from_bus = buses[1] /\ branches[1].to_bus = buses[2]
    /\ branches[1].b = 0 /\ branches[1].ratio = 0 /\ branches[1].phase_shift = 0
    /\ ~(branches[1].r = 0 /\ branches[1].x = 0)

\* C1: for two indexed buses without shunts and a single in-service branch
\* from bus 0 to bus 1 with b = 0, ratio = 0 and phase_shift = 0, getYbus
\* returns Ybus = [[y, -y], [-y, y]] with y = 1 / (r + jx).
C1_SingleLineYbus ==
    (BuiltY /\ SingleLineCase) =>
        LET y == CDiv(R(1), Cx(branches[1].r, branches[1].x, 1))
        IN  ret.Ybus.rows = << <<y, CNeg(y)>>, <<CNeg(y), y>> >>

\* getYbus ran on the single-line case with r = 1, x = 2: y = (1 - 2j) / 5.
C1_Witness ==
    /\ BuiltY /\ SingleLineCase
    /\ branches[1].r = 1 /\ branches[1].x = 2
    /\ ret.Ybus.rows[1][2] = Cx(-1, 2, 5)

\* The branch list without its k-th branch.
Without(brs, k) == SubSeq(brs, 1, k - 1) \o SubSeq(brs, k + 1, Len(brs))

\* C2: in getYbus every out-of-service branch has Ys = 0 and Bc = 0
\* whatever its r, x, b, ratio and phase_shift: its rows of Yf and Yt are
\* all zero and Ybus is what it is without that branch.
C2_OfflineBranchIsZero ==
    BuiltY =>
        \A k \in 1..Len(branches) :
            ~branches[k].online =>
                /\ SeriesAdmittance(branches[k]) = Zero
                /\ LineCharging(branches[k]) = Zero
                /\ \A c \in 1..NCols(ret.Yf) :
                       ret.Yf.rows[k][c] = Zero /\ ret.Yt.rows[k][c] = Zero
                /\ ret.Ybus = getYbus(BusObjects(buses, bus), Without(branches, k),
                                      bus, base_mva).Ybus

RowSum(M, i) == SumSeq(M.rows[i])

PlainLines ==
    \A k \in 1..Len(branches) :
        /\ ~(branches[k].r = 0 /\ branches[k].x = 0)
        /\ branches[k].online =>
               /\ branches[k].b = 0
               /\ branches[k].ratio \in {0, 1}
               /\ branches[k].phase_shift = 0

-----------------------------------------------------------------------------
(* Properties of the solution update.                                      *)

Solved == last.op = "pf_solution" /\ ~last.err

\* The matrices pf_solution was given are those the Y property builds from
\* the indices that index_buses() and index_branches() assign.
SolvedIndexed ==
    /\ Solved
    /\ YProperty(buses, bus, branches, base_mva)
          = [ok |-> TRUE, op |-> "getYbus",
             Ybus |-> last.Ybus, Yf |-> last.Yf, Yt |-> last.Yt]

\* V[end bus] * conj((Yb * V)[row]) * base_mva
ClaimedEndPower(v, row, Yb) ==
    CMul(CMul(last.V[bus[v]._i + 1], conj(MatVec(Yb, last.V)[row])), R(base_mva))

\* C4: after the indexing passes and with the matrices of the Y property,
\* pf_solution leaves on every in-service branch the power
\* V[from] * conj((Yf * V)[the branch's own row of Yf]) * base_mva at the
\* from end and likewise with Yt at the to end.  Row k of Yf is the row
\* getYbus built for the k-th branch of the case.
C4_FlowsFromOwnRow ==
    SolvedIndexed =>
        \A k \in 1..Len(branches) :
            branches[k].online =>
                /\ branches[k].p_from = real(ClaimedEndPower(branches[k].from_bus, k, last.Yf))
                /\ branches[k].q_from = imag(ClaimedEndPower(branches[k].from_bus, k, last.Yf))
                /\ branches[k].p_to = real(ClaimedEndPower(branches[k].to_bus, k, last.Yt))
                /\ branches[k].q_to = imag(ClaimedEndPower(branches[k].to_bus, k, last.Yt))

\* Sg = V .* conj(Ybus * V) of the solve that ran last
LastSg == InjectedPower(last.Ybus, last.V)

\* C5: after pf_solution every online generator on a reference bus has
\* p = Re(Sg[g.bus._i]) * base_mva + g.bus.p_demand.
C5_RefDispatchFromOwnBus ==
    Solved =>
        \A k \in 1..Len(generators) :
            (generators[k].online /\ bus[generators[k].bus].type = REFERENCE) =>
                generators[k].p =
                    CAdd(CMul(real(LastSg[bus[generators[k].bus]._i + 1]), R(base_mva)),
                         R(bus[generators[k].bus].p_demand))

MultipliersZero ==
    /\ \A k \in 1..Len(buses) :
           /\ bus[buses[k]].p_lmbda = R(0) /\ bus[buses[k]].q_lmbda = R(0)
           /\ bus[buses[k]].mu_vmin = R(0) /\ bus[buses[k]].mu_vmax = R(0)
    /\ \A k \in 1..Len(branches) :
           /\ branches[k].mu_s_from = R(0) /\ branches[k].mu_s_to = R(0)
           /\ branches[k].mu_angmin = R(0) /\ branches[k].mu_angmax = R(0)

\* C7: after pf_solution, however it ended and whatever solves and edits
\* came before, every multiplier is 0 and every out-of-service branch has
\* zero flows.
C7_NoStaleResults ==
    last.op = "pf_solution" =>
        /\ MultipliersZero
        /\ \A k \in 1..Len(branches) : ~branches[k].online => ~HasFlows(branches[k])

\* pf_solution ran on a case that held shadow prices and flows on a branch
\* switched out of service since the solve that wrote them.
C7_Witness == last.op = "pf_solution" /\ last.stale

FlowsZero == \A k \in 1..Len(branches) : ~HasFlows(branches[k])

VoltagesZero ==
    \A k \in 1..Len(buses) :
        bus[buses[k]].v_magnitude = R(0) /\ bus[buses[k]].v_angle = R(0)

IndexedInOrder(bl, bs) ==
    \A k \in 1..Len(ConnectedOf(bl, bs)) : bs[ConnectedOf(bl, bs)[k]]._i = k - 1

BranchesIndexedInOrder(brs) ==
    \A k \in 1..Len(OnlinePos(brs)) : brs[OnlinePos(brs)[k]]._i = k - 1

BusDimension(M, n, square) == NCols(M) = n /\ (square => NRows(M) = n)

\* C10: every matrix a builder returns when called with default arguments
\* has the number of non-isolated buses of the case as its bus dimension.
C10_BusDimension ==
    ret.ok =>
        LET n == Len(connected_buses)
        IN  /\ ret.op = "getYbus" =>
                   /\ BusDimension(ret.Ybus, n, TRUE)
                   /\ BusDimension(ret.Yf, n, FALSE)
                   /\ BusDimension(ret.Yt, n, FALSE)
            /\ ret.op = "makeB" =>
                   /\ BusDimension(ret.Bp, n, TRUE)
                   /\ BusDimension(ret.Bpp, n, TRUE)
            /\ ret.op = "makeBdc" =>
                   /\ BusDimension(ret.Bbus, n, TRUE)
                   /\ BusDimension(ret.Bf, n, FALSE)
                   /\ Len(ret.Pbusinj) = n

-----------------------------------------------------------------------------
(* Properties of re-indexing.                                              *)

-----------------------------------------------------------------------------
(* Properties of the fast decoupled and DC builders.                       *)

\* C12: getYbus, makeB (either method) and makeBdc leave every attribute
\* of every bus and branch of the case as it was, and the bus list too.
C12_BuildersWriteNothing ==
    [][bus' = bus /\ branches' = branches /\ buses' = buses]_vars

\* makeB returned for a case with an in-service branch that carries a
\* resistance, a charging susceptance, a tap ratio and a phase shift, all
\* still in place, and a bus shunt susceptance still in place.
C12_Witness ==
    /\ last.op = "makeB" /\ ret.ok
    /\ branches[1].online /\ branches[1].r = 1 /\ branches[1].b = 2
    /\ branches[1].ratio = 2 /\ branches[1].phase_shift = 90
    /\ \E k \in 1..Len(buses) : bus[buses[k]].b_shunt # 0

BuiltB == ret.op = "makeB" /\ ret.ok

\* The buses and branches makeB is given by default.
DefaultBuses == BusObjects(connected_buses, bus)

\* -Im of the Ybus that getYbus builds from the buses bs and branches brs.
Susceptance(bs, brs) == NegImag(getYbus(bs, brs, bus, base_mva).Ybus)

\* The default buses with every b_shunt set to s.
WithShunt(s) == Tabulate(Len(DefaultBuses), LAMBDA k : [DefaultBuses[k] EXCEPT !.b_shunt = s])

\* Another network: the bus b_shunt, the branch b and ratio, and the branch
\* r if zeroR, are all changed; nothing else is.
OtherShunts == Tabulate(Len(DefaultBuses),
                        LAMBDA k : [DefaultBuses[k] EXCEPT !.b_shunt = @ + 3])

OtherBranches(zeroR) ==
    Tabulate(Len(online_branches),
             LAMBDA k : [online_branches[k] EXCEPT !.b = @ + 1, !.ratio = @ + 2,
                                                   !.r = IF zeroR THEN @ + 1 ELSE @])

IsFiniteMatrix(M) ==
    \A i \in 1..NRows(M) : \A j \in 1..NCols(M) : IsFinite(M.rows[i][j])

\* C13: the B' that makeB returns is -Im of the Ybus of the data with every
\* bus b_shunt = 0, every branch b = 0 and ratio = 1, and r = 0 exactly for
\* method "XB"; a network that differs only in those fields gives the same
\* B'; and for method "BX" a finite B' differs from the B' with r zeroed as
\* soon as an in-service branch between two bus indices has r # 0.
C13_BPrime ==
    BuiltB =>
        /\ ret.Bp = Susceptance(WithShunt(0),
                        Tabulate(Len(online_branches),
                                 LAMBDA k : [online_branches[k] EXCEPT
                                                !.b = 0, !.ratio = 1,
                                                !.r = IF ret.method = "XB" THEN 0 ELSE @]))
        /\ ret.Bp = makeB(OtherShunts, OtherBranches(ret.method = "XB"), bus,
                          base_mva, ret.method).Bp
        /\ (/\ ret.method = "BX"
            /\ IsFiniteMatrix(ret.Bp)
            /\ \E k \in 1..Len(online_branches) :
                   /\ online_branches[k].r # 0
                   /\ bus[online_branches[k].from_bus]._i # bus[online_branches[k].to_bus]._i)
           => ret.Bp # makeB(DefaultBuses, online_branches, bus, base_mva, "XB").Bp

\* makeB ran with method "XB" and with method "BX" on a network whose
\* first branch is in service between the two first bus indices with
\* r = 1, x = 2, b = 2, ratio = 2 and a phase shift, the buses shunted.
C13_Witness ==
    /\ BuiltB
    /\ IsFiniteMatrix(ret.Bp)
    /\ branches[1].online /\ branches[1].r = 1 /\ branches[1].x = 2
    /\ branches[1].b = 2 /\ branches[1].ratio = 2 /\ branches[1].phase_shift = 90
    /\ bus[branches[1].from_bus]._i # bus[branches[1].to_bus]._i
    /\ \E k \in 1..Len(buses) : bus[buses[k]].b_shunt # 0
    /\ ret.Bp.rows[1][1] # Zero

\* The in-service branches as B'' takes them: phase_shift = 0, r = 0 for
\* method "BX", and b and ratio either kept or overridden as for B'.
DoublePrimeBranches(method, asPrime) ==
    Tabulate(Len(online_branches),
             LAMBDA k : [online_branches[k] EXCEPT
                            !.phase_shift = 0,
                            !.r = IF method = "BX" THEN 0 ELSE @,
                            !.b = IF asPrime THEN 0 ELSE @,
                            !.ratio = IF asPrime THEN 1 ELSE @])

\* C14 as claimed: the B'' that makeB returns is -Im of the Ybus of the
\* data B' starts from (bus b_shunt = 0, branch b = 0, ratio = 1) with
\* phase_shift = 0 and, for method "BX" only, r = 0.
C14_BDoublePrimeFromPrimeBase ==
    BuiltB => ret.Bpp = Susceptance(WithShunt(0), DoublePrimeBranches(ret.method, TRUE))

\* C14 amended: the B'' that makeB returns is -Im of the Ybus of the buses
\* with b_shunt = 0 and of the branches with their own b and ratio, with
\* phase_shift = 0 and, for method "BX" only, r = 0.
C14_BDoublePrime ==
    BuiltB => ret.Bpp = Susceptance(WithShunt(0), DoublePrimeBranches(ret.method, FALSE))

\* makeB returned a finite B'' for a shunted network whose first branch is
\* in service between two bus indices with charging, a tap ratio and a
\* phase shift.
C14_Witness ==
    /\ BuiltB
    /\ IsFiniteMatrix(ret.Bpp)
    /\ branches[1].online /\ branches[1].b = 2 /\ branches[1].ratio = 2
    /\ branches[1].phase_shift = 90 /\ branches[1].r = 1
    /\ bus[branches[1].from_bus]._i # bus[branches[1].to_bus]._i
    /\ \E k \in 1..Len(buses) : bus[buses[k]].b_shunt # 0
    /\ ret.Bpp # ret.Bp

BuiltBdc == ret.op = "makeBdc" /\ ret.ok

\* Equality of two floats: a non-finite value equals nothing.
SameNumber(a, b) == IsFinite(a) /\ IsFinite(b) /\ a = b

\* The angle vectors the DC matrices are applied to: a ramp and a step.
Angles(n) ==
    {Tabulate(n, LAMBDA i : R(i)),
     Tabulate(n, LAMBDA i : IF i = 1 THEN R(1) ELSE Zero)}

\* Pf = Bf * Va + Pfinj
BranchFlows(Va) ==
    Tabulate(NRows(ret.Bf), LAMBDA l : CAdd(MatVec(ret.Bf, Va)[l], ret.Pfinj[l]))

\* The flows leaving bus index i - 1 less the flows arriving at it.
NetFlow(i, Pf) ==
    CSub(SumSeq(Tabulate(Len(online_branches),
                         LAMBDA l : IF bus[online_branches[l].from_bus]._i + 1 = i
                                    THEN Pf[l] ELSE Zero)),
         SumSeq(Tabulate(Len(online_branches),
                         LAMBDA l : IF bus[online_branches[l].to_bus]._i + 1 = i
                                    THEN Pf[l] ELSE Zero)))

\* C15: for the matrices makeBdc returns and an angle vector Va, the
\* injection (Bbus * Va + Pbusinj)[i] equals the flows Pf = Bf * Va + Pfinj
\* summed over the branches from bus i less those to bus i, and
\* Pfinj = b * phase_shift with b = (online / x) / (ratio or 1).
C15_DcBalance ==
    BuiltBdc =>
        /\ \A Va \in Angles(NCols(ret.Bbus)) :
               \A i \in 1..NRows(ret.Bbus) :
                   SameNumber(CAdd(MatVec(ret.Bbus, Va)[i], ret.Pbusinj[i]),
                              NetFlow(i, BranchFlows(Va)))
        /\ \A l \in 1..Len(online_branches) :
               SameNumber(CMul(ret.Pfinj[l],
                               R(online_branches[l].x
                                   * (IF online_branches[l].ratio # 0
                                      THEN online_branches[l].ratio ELSE 1))),
                          R(online_branches[l].phase_shift))

\* C16: when every branch has phase_shift = 0, the Pbusinj and Pfinj that
\* makeBdc returns are zero vectors.
C16_NoShiftNoInjection ==
    (BuiltBdc /\ \A k \in 1..Len(branches) : branches[k].phase_shift = 0) =>
        /\ \A i \in 1..Len(ret.Pbusinj) : ret.Pbusinj[i] = Zero
        /\ \A l \in 1..Len(ret.Pfinj) : ret.Pfinj[l] = Zero

IsFiniteVector(V) == \A i \in 1..Len(V) : IsFinite(V[i])

\* C17: whatever getYbus, makeB or makeBdc returns has finite entries only.
C17_FiniteEntries ==
    ret.ok =>
        /\ ret.op = "getYbus" =>
               IsFiniteMatrix(ret.Ybus) /\ IsFiniteMatrix(ret.Yf) /\ IsFiniteMatrix(ret.Yt)
        /\ ret.op = "makeB" => IsFiniteMatrix(ret.Bp) /\ IsFiniteMatrix(ret.Bpp)
        /\ ret.op = "makeBdc" =>
               /\ IsFiniteMatrix(ret.Bbus) /\ IsFiniteMatrix(ret.Bf)
               /\ IsFiniteVector(ret.Pbusinj) /\ IsFiniteVector(ret.Pfinj)

\* C18: getYbus and makeBdc return matrices only when both end buses of
\* every branch of the build are in the bus list of the build.
C18_ForeignBusRejected ==
    /\ BuiltY => \A k \in 1..Len(branches) :
                     InList(buses, branches[k].from_bus) /\ InList(buses, branches[k].to_bus)
    /\ BuiltBdc => \A k \in 1..Len(online_branches) :
                       /\ InList(connected_buses, online_branches[k].from_bus)
                       /\ InList(connected_buses, online_branches[k].to_bus)

-----------------------------------------------------------------------------
(* Properties of pf_solution on mismatched sizes.                          *)

\* C19: pf_solution given a V whose length differs from the number of
\* columns of Ybus, Yf or Yt ends in an error and has written no result:
\* the bus voltages and the generator dispatch are what they were.
C19_MismatchWritesNothing ==
    (last.op = "pf_solution") => (last.err /\ Results = last.before)

-----------------------------------------------------------------------------
(* Properties of the second derivatives.                                   *)

\* C20: the angle-magnitude block Gav that d2Sbus_dV2 returns is the
\* transpose of its magnitude-angle block Gva, for every Ybus, every V
\* without a zero entry and every lam.
C20_GavIsGvaTransposed ==
    ret.op = "d2Sbus_dV2" =>
        /\ NRows(ret.Gav) = NCols(ret.Gva) /\ NCols(ret.Gav) = NRows(ret.Gva)
        /\ \A i \in 1..NRows(ret.Gav) : \A j \in 1..NCols(ret.Gav) :
               ret.Gav.rows[i][j] = ret.Gva.rows[j][i]

\* d2Sbus_dV2 returned a magnitude-angle block that is finite and is not
\* its own transpose, at a voltage that is not flat.
C20_Witness ==
    /\ ret.op = "d2Sbus_dV2"
    /\ IsFiniteMatrix(ret.Gva)
    /\ ret.Gva.rows[1][2] # ret.Gva.rows[2][1]
    /\ last.V[1] = Cx(2, 0, 1)

-----------------------------------------------------------------------------
(* Properties of the first derivatives.                                    *)

\* dSbus_dV ran at the flat voltage: every entry of V is 1 + 0j.
FlatDerivative ==
    /\ ret.op = "dSbus_dV"
    /\ \A i \in 1..Len(last.V) : last.V[i] = Cx(1, 0, 1)

\* conj((Y * 1)[i]): the conjugate of the sum of row i of Y.
ConjRowSum(Y, i) == conj(RowSum(Y, i))

\* Two buses, one branch, no bus shunts, and rows of Y that sum to zero.
TwoBusBalanced ==
    /\ Len(buses) = 2 /\ Len(branches) = 1 /\ ZeroShunts
    /\ \A i \in 1..NRows(last.Y) : RowSum(last.Y, i) = Zero

\* C21: at flat voltage dSbus_dV returns dS_dVm = conj(Y) + diag(conj(Y*1))
\* and dS_dVa = j * (diag(conj(Y*1)) - conj(Y)); for the 2-bus single-branch
\* network without shunts and with Y*1 = 0 that is dS_dVm = conj(Ybus) and
\* dS_dVa = -j * conj(Ybus).
C21_FlatVoltageDerivatives ==
    FlatDerivative =>
        /\ \A i \in 1..NRows(last.Y) : \A j \in 1..NCols(last.Y) :
               /\ ret.dS_dVm.rows[i][j]
                     = CAdd(conj(last.Y.rows[i][j]),
                            IF i = j THEN ConjRowSum(last.Y, i) ELSE Zero)
               /\ ret.dS_dVa.rows[i][j]
                     = CMul(Cx(0, 1, 1),
                            CSub(IF i = j THEN ConjRowSum(last.Y, i) ELSE Zero,
                                 conj(last.Y.rows[i][j])))
        /\ TwoBusBalanced =>
               \A i \in 1..2 : \A j \in 1..2 :
                   /\ ret.dS_dVm.rows[i][j] = conj(last.Y.rows[i][j])
                   /\ ret.dS_dVa.rows[i][j] = CMul(Cx(0, -1, 1), conj(last.Y.rows[i][j]))

\* dSbus_dV ran at flat voltage on the 2-bus single-line network with
\* y = (1 - 2j) / 5: dS_dVm[0][0] = (1 + 2j) / 5 and dS_dVa[0][0] = (2 - j) / 5.
C21_Witness ==
    /\ FlatDerivative /\ TwoBusBalanced
    /\ ret.dS_dVm.rows[1][1] = Cx(1, 2, 5)
    /\ ret.dS_dVa.rows[1][1] = Cx(2, -1, 5)

-----------------------------------------------------------------------------
(* Properties of two independent cases.                                    *)

\* The place of the step op in the program.
StepNo(op) == CHOOSE n \in 1..Len(Program) : Program[n] = op

\* The first n steps of the program taken on t with nothing in between.
RECURSIVE RunAlone(_, _)
RunAlone(t, n) == IF n = 0 THEN t ELSE Step(RunAlone(t, n - 1), Program[n])

\* pf_solution called whole on the view t.
SolvedWhole(t) ==
    pf_solution(t.buses, ThreadObjects(t), t.base_mva,
                t.ret.Y.Ybus, t.ret.Y.Yf, t.ret.Y.Yt, t.V)

\* C22: for two cases that share no object, however the steps of
\* index_buses, index_branches, getYbus, makeB, makeBdc, pf_solution and
\* reset on the two interleave, each case and each returned matrix is what
\* the steps taken on that case so far give when run alone; and the steps
\* of pf_solution leave what the whole call leaves.
C22_IndependentCases ==
    \A c \in 1..2 :
        /\ Thread(c) = RunAlone(last.start[c], last.pc[c])
        /\ last.pc[c] = StepNo("pf_solution: flows") =>
               LET o == SolvedWhole(RunAlone(last.start[c], StepNo("makeBdc")))
               IN  /\ ~o.err
                   /\ ThreadObjects(Thread(c)) = [bus |-> o.bus, branches |-> o.branches,
                                                  generators |-> o.generators]

\* Both callers ran their program to the end; the cases hold different
\* matrices and solved voltages, and the first case was finished while the
\* second was not.
C22_Witness ==
    /\ last.pc = <<Len(Program), Len(Program)>>
    /\ ret[1].Y.ok /\ ret[2].Y.ok /\ ret[1].Y # ret[2].Y
    /\ ret[1].B.ok /\ ret[1].Bdc.ok
    /\ bus[1][2].v_angle = R(90) /\ bus[2][1].v_angle = R(90)
    /\ last.op = "reset"

-----------------------------------------------------------------------------
(* Properties of the accessors.                                            *)

Connected(v) == bus[v].type # ISOLATED

\* C23: online_branches is exactly the in-service branches whose from and
\* to buses are both non-isolated, and online_generators exactly the online
\* generators whose bus is non-isolated.
C23_OnlineExcludesIsolated ==
    /\ online_branches
          = SelectSeq(branches,
                      LAMBDA e : e.online /\ Connected(e.from_bus) /\ Connected(e.to_bus))
    /\ online_generators
          = SelectSeq(generators, LAMBDA g : g.online /\ Connected(g.bus))

-----------------------------------------------------------------------------
(* Properties of the branch coefficients.                                  *)

\* The k-th branch is in service with r = 0, b = 0 and x # 0, and its ends
\* have different bus indices, so that each of its four coefficients is an
\* entry of the Yf and Yt that getYbus returned.
LosslessBranch(k) ==
    /\ branches[k].online
    /\ branches[k].r = 0 /\ branches[k].b = 0 /\ branches[k].x # 0
    /\ bus[branches[k].from_bus]._i # bus[branches[k].to_bus]._i

\* |Yff|, |Yft|, |Ytf|, |Ytt| of the k-th branch, read from Yf and Yt.
YffAbs(k) == CAbs(ret.Yf.rows[k][bus[branches[k].from_bus]._i + 1])
YftAbs(k) == CAbs(ret.Yf.rows[k][bus[branches[k].to_bus]._i + 1])
YtfAbs(k) == CAbs(ret.Yt.rows[k][bus[branches[k].from_bus]._i + 1])
YttAbs(k) == CAbs(ret.Yt.rows[k][bus[branches[k].to_bus]._i + 1])

\* The tap magnitude: the ratio, or 1 for the ratio 0.
TapAbs(k) == IF branches[k].ratio # 0 THEN Abs(branches[k].ratio) ELSE 1

\* C24 as claimed: for an in-service branch with r = 0 and b = 0 getYbus
\* computes |Yff| = |Ytt| and |Yft| = |Ytf|, whatever the tap ratio and the
\* phase shift.
C24_EqualMagnitudes ==
    BuiltY =>
        \A k \in 1..Len(branches) :
            LosslessBranch(k) => YffAbs(k) = YttAbs(k) /\ YftAbs(k) = YtfAbs(k)

\* C24 amended: for an in-service branch with r = 0 and b = 0 getYbus
\* computes |Yft| = |Ytf| whatever the tap ratio and the phase shift, and
\* |Yff| = |Ytt| / |tap|^2: the two are equal exactly when the tap
\* magnitude is 1.
C24_MagnitudesUpToTap ==
    BuiltY =>
        \A k \in 1..Len(branches) :
            LosslessBranch(k) =>
                /\ YftAbs(k) = YtfAbs(k)
                /\ CMul(YffAbs(k), R(TapAbs(k) * TapAbs(k))) = YttAbs(k)
                /\ (YffAbs(k) = YttAbs(k)) <=> (TapAbs(k) = 1)

\* getYbus ran on a lossless branch with ratio 2 and a phase shift:
\* |Ytt| = 1/2 and |Yff| = 1/8.
C24_Witness ==
    /\ BuiltY
    /\ LosslessBranch(1)
    /\ branches[1].ratio = 2 /\ branches[1].phase_shift = 90
    /\ YttAbs(1) = Cx(1, 0, 2) /\ YffAbs(1) = Cx(1, 0, 8) /\ YftAbs(1) = Cx(1, 0, 4)

-----------------------------------------------------------------------------
(* Properties of the tap ratio.                                            *)

\* The branches brs with every zero ratio replaced by 1.
NominalRatios(brs) ==
    Tabulate(Len(brs), LAMBDA k : [brs[k] EXCEPT !.ratio = IF @ = 0 THEN 1 ELSE @])

\* C25: getYbus and makeBdc return for a network what they return for the
\* same network with every ratio 0 replaced by 1: Ybus, Yf, Yt, Bbus, Bf,
\* Pbusinj and Pfinj are the same.
C25_ZeroRatioIsNominal ==
    /\ BuiltY => ret = getYbus(BusObjects(buses, bus), NominalRatios(branches),
                               bus, base_mva)
    /\ BuiltBdc => ret = makeBdc(DefaultBuses, NominalRatios(online_branches), bus)

\* makeBdc ran on a network whose first branch is in service between two
\* bus indices with x = 2, ratio = 0 and a phase shift of 90 degrees:
\* b = 1/2 and Pfinj = 45.
C25_Witness ==
    /\ BuiltBdc
    /\ branches[1].online /\ branches[1].ratio = 0 /\ branches[1].x = 2
    /\ branches[1].phase_shift = 90
    /\ bus[branches[1].from_bus]._i # bus[branches[1].to_bus]._i
    /\ IsFiniteMatrix(ret.Bbus)
    /\ ret.Pfinj[1] = R(45)

-----------------------------------------------------------------------------
(* Properties of building after edits.                                     *)

\* The bus objects with the index of every bus of the list bl set to its
\* current position in bl.
ByPosition(bl) ==
    Tabulate(Len(bus), LAMBDA v :
        IF InList(bl, v) THEN [bus[v] EXCEPT !._i = LastPos(bl, v) - 1] ELSE bus[v])

\* Both ends of every branch of brs are in the bus list bl.
EndsListed(brs, bl) ==
    \A k \in 1..Len(brs) : InList(bl, brs[k].from_bus) /\ InList(bl, brs[k].to_bus)

\* C26: whatever edits were made since the last indexing pass, a builder
\* called with default arguments returns the matrices in which every
\* branch's entries are in the columns of the current positions of its
\* from and to buses in the bus list of the build: getYbus over the bus
\* list and all branches, makeB and makeBdc over the non-isolated buses and
\* the in-service branches.
C26_BuildIndexesFirst ==
    /\ (last.op = "getYbus" /\ ret.ok /\ EndsListed(branches, buses)) =>
           ret = getYbus(BusObjects(buses, bus), branches, ByPosition(buses), base_mva)
    /\ (last.op = "makeB" /\ ret.ok /\ EndsListed(online_branches, connected_buses)) =>
           ret = makeB(DefaultBuses, online_branches, ByPosition(connected_buses),
                       base_mva, ret.method)
    /\ (last.op = "makeBdc" /\ ret.ok /\ EndsListed(online_branches, connected_buses)) =>
           ret = makeBdc(DefaultBuses, online_branches, ByPosition(connected_buses))


\* C27: a pf_solution call that ends in an error leaves the case as it was
\* before the call: no result reset, no bus or branch index reassigned, no
\* bus voltage, generator dispatch or branch flow overwritten.
C27_ErrorLeavesCaseAlone ==
    [][(last'.op = "pf_solution" /\ last'.err) =>
          (bus' = bus /\ branches' = branches /\ generators' = generators)]_vars


\* C28: pf_solution called twice in a row with the same Ybus, Yf, Yt and V
\* leaves every bus, branch and generator attribute as the first call left
\* it, and ends as the first call ended, whatever the case held before.
C28_SolutionIdempotent ==
    last.op = "pf_solution again" =>
        /\ cs = last.first.case
        /\ last.err = last.first.err

\* The second call followed a first call that ran on a case holding stale
\* results and that wrote branch flows and a reference dispatch.
C28_Witness ==
    /\ last.op = "pf_solution again" /\ ~last.err
    /\ last.first.stale
    /\ \E k \in 1..Len(branches) : HasFlows(branches[k])
    /\ \E k \in 1..Len(generators) : generators[k].p # R(0)

-----------------------------------------------------------------------------
(* Properties of the DC matrices.                                          *)

ColSum(M, j) == SumSeq(Tabulate(NRows(M), LAMBDA i : M.rows[i][j]))

NonZeroReactances == \A k \in 1..Len(branches) : branches[k].x # 0

\* C29: when every branch has x # 0, the Bbus that makeBdc returns is
\* symmetric, each of its rows and columns sums to zero, and the entries
\* of Pbusinj sum to zero.
C29_DcMatrixBalanced ==
    (BuiltBdc /\ NonZeroReactances) =>
        /\ \A i, j \in 1..NRows(ret.Bbus) : ret.Bbus.rows[i][j] = ret.Bbus.rows[j][i]
        /\ \A i \in 1..NRows(ret.Bbus) :
               RowSum(ret.Bbus, i) = Zero /\ ColSum(ret.Bbus, i) = Zero
        /\ SumSeq(ret.Pbusinj) = Zero

\* makeBdc ran on two in-service branches in parallel between two bus
\* indices, the first with a tap ratio and a phase shift: Bbus and Pbusinj
\* are not zero.
C29_Witness ==
    /\ BuiltBdc /\ NonZeroReactances
    /\ Len(online_branches) = 2
    /\ \A k \in 1..2 :
           {bus[branches[k].from_bus]._i, bus[branches[k].to_bus]._i} = {0, 1}
    /\ branches[1].ratio = 2 /\ branches[1].phase_shift = 90
    /\ ret.Bbus.rows[1][2] # Zero
    /\ ret.Pbusinj[1] # Zero

-----------------------------------------------------------------------------
(* Properties of make_susceptance_matrix.                                  *)

BuiltSusceptance == ret.op = "make_susceptance_matrix" /\ ret.ok

\* The two routines work over one ordering: every connected bus holds its
\* position among the connected buses as its index.
SameOrdering == IndexedInOrder(buses, bus)

\* Every in-service branch has x # 0 and joins two distinct buses.
ProperBranches ==
    \A k \in 1..Len(online_branches) :
        /\ online_branches[k].x # 0
        /\ online_branches[k].from_bus # online_branches[k].to_bus

\* 1e12, divided by the tap ratio when that is not 0.
Substituted(e) == Sus(IF e.ratio # 0 THEN CDiv(R(1), R(e.ratio)) ELSE R(1), Zero)

\* The matrix of the finite numbers of M, where M has no 1e12 part.
Plain(M) ==
    [ncols |-> NCols(M),
     rows |-> Tabulate(NRows(M), LAMBDA i :
                  Tabulate(NCols(M), LAMBDA j :
                      IF M.rows[i][j].big = Zero THEN M.rows[i][j].fin ELSE NaN))]

\* C30: over one bus and branch ordering, for in-service branches with
\* x # 0 between distinct buses, make_susceptance_matrix returns the Bbus
\* and the Bf of makeBdc, parallel branches accumulating; and for an
\* in-service branch with x = 0 it takes the susceptance 1e12, divided by a
\* non-zero tap ratio, where makeBdc divides by zero.
C30_SusceptanceAgreesWithBdc ==
    (BuiltSusceptance /\ SameOrdering) =>
        /\ ProperBranches =>
               /\ Plain(ret.b) = makeBdc(DefaultBuses, online_branches, bus).Bbus
               /\ Plain(ret.b_source) = makeBdc(DefaultBuses, online_branches, bus).Bf
               /\ IsFiniteMatrix(Plain(ret.b))
        /\ \A k \in 1..Len(online_branches) :
               (online_branches[k].x = 0
                   /\ online_branches[k].from_bus # online_branches[k].to_bus) =>
                   /\ ret.b_source.rows[k][ListIndex(connected_buses,
                                                     online_branches[k].from_bus)]
                         = Substituted(online_branches[k])
                   /\ ~IsFinite(makeBdc(DefaultBuses, online_branches, bus)
                                    .Bf.rows[k][ListIndex(connected_buses,
                                                          online_branches[k].from_bus)])

\* make_susceptance_matrix ran on two in-service branches in parallel
\* between two buses, the first with x = 2 and the tap ratio 2: its
\* susceptance is 1/4, and with the 1/2 of the second line b[0][0] = 3/4.
C30_Witness ==
    /\ BuiltSusceptance /\ SameOrdering /\ ProperBranches
    /\ Len(online_branches) = 2
    /\ branches[1].ratio = 2 /\ branches[1].x = 2
    /\ ret.b_source.rows[1][branches[1].from_bus] = Sus(Zero, Cx(1, 0, 4))
    /\ ret.b.rows[1][1] = Sus(Zero, Cx(3, 0, 4))

=============================================================================
